---------------------------- MODULE Spec2Model ----------------------------
(***************************************************************************)
(* Insurance-policy cleaning and churn analysis (data_cleaning.py,         *)
(* customer_standardize.py, exploratory_analysis.py, churn_rate.py).       *)
(*                                                                         *)
(* A table (pandas DataFrame) is a record [columns, dtypes, rows]: columns *)
(* is the sequence of column labels (labels may repeat, as pandas allows), *)
(* dtypes the columns' types, rows a sequence of rows, each a sequence of  *)
(* cells aligned with columns.  A cell is NaN (absent) or Some(v).  The    *)
(* tables are the ones read_csv hands to the program: an empty CSV field   *)
(* is already NaN.                                                         *)
(***************************************************************************)
EXTENDS Integers, Sequences, FiniteSets, TLC

VARIABLES
    series,                 \* resolve: the Series passed in (one customer's observations)
    resolved,               \* resolve: the pair returned, or NotYet
    policies_csv,           \* the file CSV_FILE read by the cleaning step, as a table
    df_customer,            \* run_data_cleaning: the customer-level table of the last run
    policies_standardized,  \* the file STANDARDIZED_OUTPUT, as a table, or NoFile
    stage,                  \* where the cleaning step stands: "input", "cleaned",
                            \* "fed back" (its output made its input), "cleaned again"
    raised,                 \* the exception the last cleaning run ended with, or "none"
    df,                     \* exploratory_analysis: the module-level table
    overall_churn_rate,     \* exploratory_analysis: the module-level baseline, a fraction
    grp,                    \* churn_table: the sorted breakdown last printed, or NotYet
    total_line,             \* churn_table: the TOTAL line last printed, or NotYet
    tenure_chart,           \* run_tenure_chart: the bars of the chart (its grp), or NotYet
    analysis_raised,        \* the exception the analysis script ended with, or "none"
    sanity_report,          \* run_quality_checks: what the checks wrote to SANITY_OUTPUT
                            \* and the exception that ended them, or NotYet
    sys_stdout,             \* sys.stdout: the stream print writes to
    output,                 \* what was printed to the console and to the report
                            \* files; a file that was never opened is NoFile
    pc                      \* where the script that is running stands

vars == <<series, resolved, policies_csv, df_customer, policies_standardized,
          stage, raised, df, overall_churn_rate, grp, total_line, tenure_chart,
          analysis_raised, sanity_report, sys_stdout, output, pc>>

resolveVars == <<series, resolved>>
cleanVars   == <<policies_csv, df_customer, policies_standardized, stage, raised>>
churnVars   == <<df, overall_churn_rate, grp, total_line, tenure_chart, analysis_raised>>
qualityVars == <<sanity_report>>
runVars     == <<sys_stdout, output, pc>>

----------------------------------------------------------------------------
(* Cells and sequences *)

NaN == <<>>
Some(v) == <<v>>
\* a result not computed yet, a file not written yet; a computed result r and a
\* written file f are Some(r), Some(f)
NotYet == <<>>
NoFile == <<>>

Range(s) == {s[i] : i \in DOMAIN s}

\* the sequence <<f(1), ..., f(n)>>
RECURSIVE TabulateTo(_, _, _)
TabulateTo(n, f(_), k) ==
    IF k = 0 THEN <<>> ELSE Append(TabulateTo(n, f, k - 1), f(k))

Tabulate(n, f(_)) == TabulateTo(n, f, n)

\* body(v), with v computed once
With(v, body(_)) == CHOOSE r \in {body(x) : x \in {v}} : TRUE

\* the numbers of S in ascending order
RECURSIVE Ascending(_)
Ascending(S) ==
    IF S = {} THEN <<>>
    ELSE LET m == CHOOSE x \in S : \A y \in S : x <= y
         IN  <<m>> \o Ascending(S \ {m})

RECURSIVE SumSeq(_)
SumSeq(s) == IF s = <<>> THEN 0 ELSE Head(s) + SumSeq(Tail(s))

----------------------------------------------------------------------------
(* resolve(series): data_cleaning.py 250-267, customer_standardize.py 33-50 *)

\* Series.dropna()
dropna(s) == SelectSeq(s, LAMBDA c : c # NaN)

\* Series.unique(): the distinct values in order of first appearance
RECURSIVE unique(_)
unique(s) ==
    IF s = <<>> THEN <<>>
    ELSE LET init == unique(SubSeq(s, 1, Len(s) - 1))
             last == s[Len(s)]
         IN  IF last \in Range(init) THEN init ELSE Append(init, last)

\* Series.value_counts()[v]
value_count(s, v) == Cardinality({i \in DOMAIN s : s[i] = v})

\* Series.mode(): every value whose count is the greatest (pandas returns them
\* sorted; resolve reads only their number and, when it is 1, the single one)
mode(s) ==
    {v \in Range(s) : \A w \in Range(s) : value_count(s, v) >= value_count(s, w)}

\* a plausible slip: absent observations are not dropped
resolve_keepna(s) ==
    LET values == s
    IN  IF Len(values) = 0 THEN <<"Unknown", 0>>
        ELSE LET u == unique(values)
             IN  IF Len(u) = 1 THEN <<IF u[1] = NaN THEN "nan" ELSE u[1][1], 0>>
                 ELSE LET m == mode(values)
                      IN  IF Cardinality(m) = 1
                          THEN <<LET c == CHOOSE v \in m : TRUE
                                 IN  IF c = NaN THEN "nan" ELSE c[1], 1>>
                          ELSE <<"Conflict", 1>>

\* a plausible slip: agreement is tested on the number of observations
resolve_lenvalues(s) ==
    LET values == dropna(s)
    IN  IF Len(values) = 0 THEN <<"Unknown", 0>>
        ELSE IF Len(values) = 1 THEN <<values[1][1], 0>>
        ELSE LET m == mode(values)
             IN  IF Cardinality(m) = 1
                 THEN <<(CHOOSE v \in m : TRUE)[1], 1>>
                 ELSE <<"Conflict", 1>>

\* a plausible slip: the first observed value is taken instead of the mode
resolve_first(s) ==
    LET values == dropna(s)
    IN  IF Len(values) = 0 THEN <<"Unknown", 0>>
        ELSE LET u == unique(values)
             IN  IF Len(u) = 1 THEN <<u[1][1], 0>>
                 ELSE LET m == mode(values)
                      IN  IF Cardinality(m) = 1
                          THEN <<u[1][1], 1>>
                          ELSE <<"Conflict", 1>>

\* a plausible slip: tied modes fall back to the first of them
resolve_tiefirst(s) ==
    LET values == dropna(s)
    IN  IF Len(values) = 0 THEN <<"Unknown", 0>>
        ELSE LET u == unique(values)
             IN  IF Len(u) = 1 THEN <<u[1][1], 0>>
                 ELSE LET m == mode(values)
                      IN  <<(CHOOSE v \in m : TRUE)[1], 1>>

resolve(s) ==
    LET values == dropna(s)
    IN  IF Len(values) = 0 THEN <<"Unknown", 0>>
        ELSE LET u == unique(values)
             IN  IF Len(u) = 1 THEN <<u[1][1], 0>>
                 ELSE LET m == mode(values)
                      IN  IF Cardinality(m) = 1
                          THEN <<(CHOOSE v \in m : TRUE)[1], 1>>
                          ELSE <<"Conflict", 1>>

----------------------------------------------------------------------------
(* Output streams: what print and open(name, 'w') do to the console and to   *)
(* the report files.  A stream holds the lines written to it, of which the   *)
(* model keeps the titles, the headings and the messages; the tables under   *)
(* the headings are kept in sanity_report and grp.                           *)

SANITY_OUTPUT == "sanity_checks_report.txt"
CHURN_OUTPUT  == "churn_rate_report.txt"

\* the charts the analysis saves
Charts == {"tenure_churn_histogram.png", "risky_payment.png", "price_per_coverage_plot.png"}

Streams == {"console", SANITY_OUTPUT, CHURN_OUTPUT} \cup Charts

\* the console is empty and no report file exists
NoOutput == [st \in Streams |-> IF st = "console" THEN Some(<<>>) ELSE NoFile]

\* open(name, 'w'): the file is created, or emptied when it exists
open(out, name) == [out EXCEPT ![name] = Some(<<>>)]

\* plt.savefig(name): the chart is written; its picture is not modelled
savefig(out, name) == [out EXCEPT ![name] = Some(<<"figure">>)]

\* print(line) for each line of lines while sys.stdout is stream
print(out, stream, lines) == [out EXCEPT ![stream] = Some(@[1] \o lines)]

\* a plausible slip: sys.stdout is put back after the with block, which an
\* exception skips
finally_on_return(original_stdout, redirected, exc) ==
    IF exc = "none" THEN original_stdout ELSE redirected

\* try: ... finally: sys.stdout = original_stdout; the stream sys.stdout
\* names after the block, left by return or by the exception exc
finally(original_stdout, redirected, exc) == original_stdout

----------------------------------------------------------------------------
(* pandas tables *)

DataFrame(cols, dtypes, rows) == [columns |-> cols, dtypes |-> dtypes, rows |-> rows]

\* `c in df.columns`
HasCol(d, c) == c \in Range(d.columns)

\* position of the (first) column labelled c
RECURSIVE FirstAt(_, _, _)
FirstAt(s, v, i) == IF s[i] = v THEN i ELSE FirstAt(s, v, i + 1)

ColPos(d, c) == FirstAt(d.columns, c, 1)

\* df[c] as a Series, in row order
Column(d, c) ==
    LET p == ColPos(d, c) IN Tabulate(Len(d.rows), LAMBDA r : d.rows[r][p])

\* df[c] = f(df[c]), cell by cell
MapColumn(d, c, f(_)) ==
    LET p == ColPos(d, c)
    IN  [d EXCEPT !.rows =
            Tabulate(Len(d.rows), LAMBDA r : [d.rows[r] EXCEPT ![p] = f(d.rows[r][p])])]

\* df[c] = f(df[c]) with the column's type becoming t
MapColumnAs(d, c, f(_), t) ==
    [MapColumn(d, c, f) EXCEPT !.dtypes[ColPos(d, c)] = t]

\* df.rename(columns={old: new})
rename(d, old, new) ==
    [d EXCEPT !.columns =
        Tabulate(Len(d.columns), LAMBDA i : IF d.columns[i] = old THEN new ELSE d.columns[i])]

\* the positions of s whose element satisfies keep, in order
RECURSIVE Positions(_, _, _)
Positions(s, keep(_), n) ==
    IF n = 0 THEN <<>>
    ELSE LET before == Positions(s, keep, n - 1)
         IN  IF keep(s[n]) THEN Append(before, n) ELSE before

RECURSIVE Flatten(_)
Flatten(ss) == IF ss = <<>> THEN <<>> ELSE Head(ss) \o Flatten(Tail(ss))

\* the labels left and right share besides the key: they get the suffixes _x, _y
overlap(left, right, on) ==
    (Range(left.columns) \cap Range(right.columns)) \ {on}

\* the types of the right side's columns after the join: an int64 column that
\* received a NaN is float64
joined_dtypes(right, rkeep, rows, width) ==
    Tabulate(Len(rkeep), LAMBDA k :
        IF right.dtypes[rkeep[k]] = "int64"
           /\ \E r \in DOMAIN rows : rows[r][width + k] = NaN
        THEN "float64" ELSE right.dtypes[rkeep[k]])

\* left.merge(right, on=on, how='left') raises KeyError when a side lacks the key
merge_raises(left, right, on) == ~HasCol(left, on) \/ ~HasCol(right, on)

\* a plausible slip: an inner join, which drops the rows without a match
merge_inner(left, right, on) ==
    LET ov    == overlap(left, right, on)
        rkeep == Positions(right.columns, LAMBDA c : c # on, Len(right.columns))
        lcols == Tabulate(Len(left.columns), LAMBDA i :
                    IF left.columns[i] \in ov THEN left.columns[i] \o "_x"
                    ELSE left.columns[i])
        rcols == Tabulate(Len(rkeep), LAMBDA k :
                    IF right.columns[rkeep[k]] \in ov
                    THEN right.columns[rkeep[k]] \o "_y"
                    ELSE right.columns[rkeep[k]])
        lk    == ColPos(left, on)
        rk    == ColPos(right, on)
        joined(row) ==
            LET hits == Positions(right.rows, LAMBDA rr : rr[rk] = row[lk],
                                  Len(right.rows))
            IN  Tabulate(Len(hits), LAMBDA h :
                    row \o Tabulate(Len(rkeep), LAMBDA k : right.rows[hits[h]][rkeep[k]]))
        rows  == Flatten(Tabulate(Len(left.rows), LAMBDA r : joined(left.rows[r])))
    IN  DataFrame(lcols \o rcols, left.dtypes \o joined_dtypes(right, rkeep, rows, Len(lcols)), rows)

\* left.merge(right, on=on, how='left'): every left row, in order, once per
\* right row with an equal key, or once with NaN in the right's columns
merge(left, right, on) ==
    LET ov    == overlap(left, right, on)
        rkeep == Positions(right.columns, LAMBDA c : c # on, Len(right.columns))
        lcols == Tabulate(Len(left.columns), LAMBDA i :
                    IF left.columns[i] \in ov THEN left.columns[i] \o "_x"
                    ELSE left.columns[i])
        rcols == Tabulate(Len(rkeep), LAMBDA k :
                    IF right.columns[rkeep[k]] \in ov
                    THEN right.columns[rkeep[k]] \o "_y"
                    ELSE right.columns[rkeep[k]])
        lk    == ColPos(left, on)
        rk    == ColPos(right, on)
        joined(row) ==
            LET hits == Positions(right.rows, LAMBDA rr : rr[rk] = row[lk],
                                  Len(right.rows))
            IN  IF hits = <<>>
                THEN <<row \o Tabulate(Len(rkeep), LAMBDA k : NaN)>>
                ELSE Tabulate(Len(hits), LAMBDA h :
                        row \o Tabulate(Len(rkeep), LAMBDA k : right.rows[hits[h]][rkeep[k]]))
        rows  == Flatten(Tabulate(Len(left.rows), LAMBDA r : joined(left.rows[r])))
    IN  DataFrame(lcols \o rcols, left.dtypes \o joined_dtypes(right, rkeep, rows, Len(lcols)), rows)

----------------------------------------------------------------------------
(* Step 2, data cleaning: data_cleaning.py 270-302, customer_standardize.py *)

\* the date strings pandas parses; every other string is coerced to NaT
DateStrings == {"2021-03-01", "2022-11-30"}

Timestamp(str) == "Timestamp('" \o str \o " 00:00:00')"

\* pd.to_datetime(cell, errors='coerce'); NaT is NaN
to_datetime(c) ==
    IF c = NaN THEN NaN
    ELSE IF c[1] \in DateStrings THEN Some(Timestamp(c[1]))
    ELSE IF c[1] \in {Timestamp(str) : str \in DateStrings} THEN c
    ELSE NaN

\* Series.fillna('Unknown')
fillna_Unknown(c) == IF c = NaN THEN Some("Unknown") ELSE c

\* df.replace('', pd.NA): the strings live in the object columns
replace_empty(d) ==
    [d EXCEPT !.rows =
        Tabulate(Len(d.rows), LAMBDA r :
            Tabulate(Len(d.columns), LAMBDA i :
                IF d.dtypes[i] = "object" /\ d.rows[r][i] = Some("")
                THEN NaN ELSE d.rows[r][i]))]

\* for date_col in [...]: if date_col in df.columns: df[date_col] = to_datetime
RECURSIVE parse_dates(_, _)
parse_dates(d, date_cols) ==
    IF date_cols = <<>> THEN d
    ELSE LET c == Head(date_cols)
         IN  With(IF HasCol(d, c)
                  THEN MapColumnAs(d, c, to_datetime, "datetime64[ns]")
                  ELSE d,
                  LAMBDA parsed : parse_dates(parsed, Tail(date_cols)))

\* lines 273-278: the table as prepared before the customer loop
prepare(d) ==
    With(parse_dates(d, <<"snapshot_date", "policy_start_date">>), LAMBDA dated :
    With(replace_empty(dated), LAMBDA d1 :
        IF HasCol(d1, "income_band")
        THEN MapColumn(d1, "income_band", fillna_Unknown)
        ELSE d1))

\* the customer ids of the data in ascending order, the order groupby iterates in
CustomerIds == <<"C1", "C2">>

\* a plausible slip: only the customer's first policy is read
group_first(d, key, k) ==
    LET p   == ColPos(d, key)
        all == Positions(d.rows, LAMBDA row : row[p] = Some(k), Len(d.rows))
    IN  IF all = <<>> THEN <<>> ELSE <<all[1]>>

\* df.groupby(key): the rows of group k, in row order (the NaN keys are in no group)
group(d, key, k) ==
    LET p == ColPos(d, key)
    IN  Positions(d.rows, LAMBDA row : row[p] = Some(k), Len(d.rows))

\* df.groupby(key): the keys present, ascending
group_keys(d, key) ==
    LET present(k) == group(d, key, k) # <<>>
        at == Positions(CustomerIds, present, Len(CustomerIds))
    IN  Tabulate(Len(at), LAMBDA n : CustomerIds[at[n]])

\* group[c] for the rows at positions ps
group_column(d, ps, c) ==
    LET p == ColPos(d, c) IN Tabulate(Len(ps), LAMBDA n : d.rows[ps[n]][p])

\* lines 280-290: one record per customer
records(d) ==
    LET keys == group_keys(d, "customer_id")
    IN  Tabulate(Len(keys), LAMBDA n :
            LET ps == group(d, "customer_id", keys[n])
                g  == resolve(group_column(d, ps, "customer_gender"))
                c  == resolve(group_column(d, ps, "country"))
            IN  <<Some(keys[n]), Some(g[1]), Some(g[2]), Some(c[1]), Some(c[2])>>)

\* pd.DataFrame(records): no record, no column
customer_table(recs) ==
    IF recs = <<>> THEN DataFrame(<<>>, <<>>, <<>>)
    ELSE DataFrame(<<"customer_id", "gender_std", "gender_conflict",
                     "country_std", "country_conflict">>,
                   <<"object", "object", "int64", "object", "int64">>,
                   recs)

\* lines 293-294: the table written to STANDARDIZED_OUTPUT
standardized(d, customers) ==
    With(merge(d, customers, "customer_id"), LAMBDA merged :
        rename(merged, "gender_std", "customer_gender_std"))

\* lines 280-283: groupby('customer_id') and, for a customer, group[...]
\* raise KeyError on a column that is absent
loop_raises(d) ==
    \/ ~HasCol(d, "customer_id")
    \/ /\ group_keys(d, "customer_id") # <<>>
       /\ ~(HasCol(d, "customer_gender") /\ HasCol(d, "country"))

\* run_data_cleaning(): reads CSV_FILE, writes STANDARDIZED_OUTPUT unless an
\* exception ends the run before (the file is written last, line 301)
run_data_cleaning ==
    IF policies_csv = NoFile
    THEN /\ raised' = "FileNotFoundError"
         /\ UNCHANGED <<policies_csv, df_customer, policies_standardized, output>>
    ELSE \E d0 \in {prepare(policies_csv)} :
        IF loop_raises(d0)
        THEN /\ raised' = "KeyError"
             /\ UNCHANGED <<policies_csv, df_customer, policies_standardized, output>>
        ELSE \E customers \in {customer_table(records(d0))} :
            /\ df_customer' = Some(customers)
            /\ IF merge_raises(d0, customers, "customer_id")
               THEN /\ raised' = "KeyError"
                    /\ UNCHANGED <<policies_standardized, output>>
               ELSE /\ raised' = "none"
                    /\ policies_standardized' = Some(standardized(d0, customers))
                    /\ output' = print(output, sys_stdout,
                                       <<"Saved to: policies_standardized.csv">>)
            /\ UNCHANGED policies_csv

----------------------------------------------------------------------------
(* Step 1 of the analysis, churn_table: exploratory_analysis.py 29-47,       *)
(* churn_rate.py 23-41.  A rate is the fraction num/den, kept exact; x/0 is  *)
(* inf for x > 0 and NaN for x = 0, as in a float division of two Series.    *)

Rate(n, d) == [num |-> n, den |-> d]
IsNaNRate(q) == q.den = 0 /\ q.num = 0
IsInfRate(q) == q.den = 0 /\ q.num > 0

\* a >= b for two rates that are not NaN
RateGE(a, b) ==
    IF IsInfRate(a) THEN TRUE
    ELSE IF IsInfRate(b) THEN FALSE
    ELSE a.num * b.den >= b.num * a.den

\* the values of the grouping column in ascending order, the order of groupby
GroupValues == <<"Term", "Universal", "Whole">>

\* the values the other grouping columns of the churn report hold, ascending
FlagColumns ==
    {"beneficiary_updated", "discount_applied", "has_rider", "critical_illness_rider",
     "disability_rider"}
CountColumns == {"late_payment_count", "customer_service_calls", "num_dependents"}

GroupValuesOf(col) ==
    IF col = "product_type" THEN GroupValues
    ELSE IF col \in FlagColumns THEN <<FALSE, TRUE>>
    ELSE IF col \in CountColumns THEN <<0, 1, 2>>
    ELSE IF col = "payment_frequency" THEN <<"Annual", "Monthly">>
    ELSE IF col = "acquisition_channel" THEN <<"AGENT", "Agent", "Online">>
    ELSE IF col = "marital_status" THEN <<"Married", "Single">>
    ELSE IF col = "income_band" THEN <<"High", "Low", "Unknown">>
    ELSE IF col = "customer_gender_std" THEN <<"Conflict", "F", "M", "Other", "Unknown">>
    ELSE IF col = "country_std" THEN <<"Conflict", "IL", "US", "Unknown">>
    ELSE <<>>

\* Series.nunique(): the distinct values, NaN left out
nunique(s) == Cardinality(Range(s) \ {NaN})

\* Series.sum() of a bool column
sum_bool(s) == Cardinality({i \in DOMAIN s : s[i] = Some(TRUE)})

\* df['churned'].mean() * 100, lines 298-299
churn_mean(d) ==
    LET s == Column(d, "churned")
    IN  Rate(100 * sum_bool(s), Cardinality({i \in DOMAIN s : s[i] # NaN}))

\* df.groupby(col): the rows whose col is v
churn_group(d, col, v) ==
    LET p == ColPos(d, col)
    IN  Positions(d.rows, LAMBDA row : row[p] = Some(v), Len(d.rows))

\* a plausible slip: Total counts the rows of the group
aggregate_size(d, col) ==
    LET present(v) == churn_group(d, col, v) # <<>>
        at == Positions(GroupValuesOf(col), present, Len(GroupValuesOf(col)))
    IN  Tabulate(Len(at), LAMBDA n :
            LET v  == GroupValuesOf(col)[at[n]]
                ps == churn_group(d, col, v)
                t  == Len(ps)
                c  == sum_bool(group_column(d, ps, "churned"))
            IN  [Value |-> v, Total |-> t, Churned |-> c, Rate |-> Rate(100 * c, t)])

\* .agg(Total=('policy_id', 'nunique'), Churned=('churned', 'sum')).assign(Rate%)
\* one row per value present, ascending by value
aggregate(d, col) ==
    LET present(v) == churn_group(d, col, v) # <<>>
        at == Positions(GroupValuesOf(col), present, Len(GroupValuesOf(col)))
    IN  Tabulate(Len(at), LAMBDA n :
            LET v  == GroupValuesOf(col)[at[n]]
                ps == churn_group(d, col, v)
                t  == nunique(group_column(d, ps, "policy_id"))
                c  == sum_bool(group_column(d, ps, "churned"))
            IN  [Value |-> v, Total |-> t, Churned |-> c, Rate |-> Rate(100 * c, t)])

----------------------------------------------------------------------------
(* Binning with pd.cut: exploratory_analysis.py 302-313 and 120-129,         *)
(* churn_rate.py 45-57, tenure_churn_plot.py 20-28.  customer_age is a whole *)
(* number of years.  tenure_months may be fractional: a tenure cell holds    *)
(* the tenure in half months, and Months(m) is m months in that unit.        *)

AgeBins   == <<17, 30, 40, 50, 60, 70, 120>>
AgeLabels == <<"18-30", "31-40", "41-50", "51-60", "61-70", "71+">>

TenureBins   == <<0, 12, 24, 36, 48, 60, 72, 84, 96, 108, 120, 9999>>
TenureLabels ==
    <<"0-1yr", "1-2yr", "2-3yr", "3-4yr", "4-5yr", "5-6yr", "6-7yr", "7-8yr",
      "8-9yr", "9-10yr", "10yr+">>

Months(m) == 2 * m

\* pd.cut of one value: the label of the bin that holds it, NaN when the value
\* is absent or in no bin; bins are (lo, hi] when right, [lo, hi) when not
cut(c, bins, labels, right) ==
    IF c = NaN THEN NaN
    ELSE LET hit == {i \in DOMAIN labels :
                        IF right THEN bins[i] < c[1] /\ c[1] <= bins[i + 1]
                                 ELSE bins[i] <= c[1] /\ c[1] < bins[i + 1]}
         IN  IF hit = {} THEN NaN ELSE Some(labels[CHOOSE i \in hit : TRUE])

\* df[col] = values: the column is replaced, or appended when new
assign(d, col, dtype, values) ==
    IF HasCol(d, col)
    THEN LET p == ColPos(d, col)
         IN  DataFrame(d.columns, [d.dtypes EXCEPT ![p] = dtype],
                       Tabulate(Len(d.rows), LAMBDA r : [d.rows[r] EXCEPT ![p] = values[r]]))
    ELSE DataFrame(Append(d.columns, col), Append(d.dtypes, dtype),
                   Tabulate(Len(d.rows), LAMBDA r : Append(d.rows[r], values[r])))

\* df['age_group'] = pd.cut(df['customer_age'], bins, labels), lines 302-306
age_group(d) ==
    LET p == ColPos(d, "customer_age")
    IN  assign(d, "age_group", "category",
               Tabulate(Len(d.rows), LAMBDA r : cut(d.rows[r][p], AgeBins, AgeLabels, TRUE)))

\* the edges in the unit of the tenure cells
in_half_months(bins) == [i \in DOMAIN bins |-> Months(bins[i])]

\* df['tenure_group'] = pd.cut(df['tenure_months'], ..., right=False), 307-313
tenure_group(d) ==
    LET p == ColPos(d, "tenure_months")
    IN  assign(d, "tenure_group", "category",
               Tabulate(Len(d.rows), LAMBDA r :
                   cut(d.rows[r][p], in_half_months(TenureBins), TenureLabels, FALSE)))

\* df['tenure_months'].max(): the greatest tenure present, NaN when none is
tenure_max(d) ==
    LET s == Range(Column(d, "tenure_months")) \ {NaN}
    IN  IF s = {} THEN NaN ELSE CHOOSE c \in s : \A o \in s : c[1] >= o[1]

\* int(x) of a tenure in half months: the whole months, rounded toward zero
int(h) == IF h >= 0 THEN h \div 2 ELSE -((-h) \div 2)

\* list(range(0, stop, step))
range(stop, step) ==
    [i \in 1..(IF stop <= 0 THEN 0 ELSE (stop + step - 1) \div step) |-> (i - 1) * step]

\* a plausible slip: the last edge is the whole months of the maximum
chart_bins_short(d) == range(int(tenure_max(d)[1]) + 1, 12)

\* bins = list(range(0, int(max_tenure) + 13, 12)), line 122
chart_bins(d) == range(int(tenure_max(d)[1]) + 13, 12)

\* labels = [f"{b//12}-{b//12 + 1}yr" for b in bins[:-1]], line 123
chart_labels(bins) ==
    [i \in 1..(Len(bins) - 1) |->
        ToString(bins[i] \div 12) \o "-" \o ToString(bins[i] \div 12 + 1) \o "yr"]

\* df['tenure_bin'] = pd.cut(df['tenure_months'], bins, labels, right=False)
tenure_bin(d, bins) ==
    LET p == ColPos(d, "tenure_months")
    IN  With(in_half_months(bins), LAMBDA edges :
        With(chart_labels(bins), LAMBDA labels :
            assign(d, "tenure_bin", "category",
                   Tabulate(Len(d.rows), LAMBDA r : cut(d.rows[r][p], edges, labels, FALSE)))))

\* df.groupby('tenure_bin', observed=True).agg(total, churned).assign(churn_rate)
\* .reset_index(), lines 126-129: one bar per bucket that has rows
chart_grp(d, labels) ==
    LET p  == ColPos(d, "tenure_bin")
        at == Ascending({i \in DOMAIN labels :
                            \E r \in DOMAIN d.rows : d.rows[r][p] = Some(labels[i])})
    IN  Tabulate(Len(at), LAMBDA n :
            LET v  == labels[at[n]]
                ps == churn_group(d, "tenure_bin", v)
                t  == nunique(group_column(d, ps, "policy_id"))
                c  == sum_bool(group_column(d, ps, "churned"))
            IN  [tenure_bin |-> v, total |-> t, churned |-> c,
                 churn_rate |-> Rate(100 * c, t)])

\* ax.set_ylim(0, grp['churn_rate'].max() * 1.2), line 148, refuses a limit
\* that is NaN (no bar with a rate) or infinite
ylim_raises(bars) ==
    \/ \A n \in DOMAIN bars : IsNaNRate(bars[n].churn_rate)
    \/ \E n \in DOMAIN bars : IsInfRate(bars[n].churn_rate)

\* run_tenure_chart(), lines 120-168.  With fewer than two edges pd.cut either
\* refuses the bins or labels every row NaN, and then no bar has a rate.
run_tenure_chart ==
    /\ \E M \in {tenure_max(df)} :
        IF M = NaN
        THEN /\ analysis_raised' = "ValueError"
             /\ UNCHANGED <<df, tenure_chart>>
        ELSE \E bins \in {chart_bins(df)} :
            IF Len(bins) < 2
            THEN /\ analysis_raised' = "ValueError"
                 /\ \/ UNCHANGED <<df, tenure_chart>>
                    \/ /\ df' = tenure_bin(df, bins)
                       /\ tenure_chart' = Some(<<>>)
            ELSE \E d1 \in {tenure_bin(df, bins)} :
                 \E bars \in {chart_grp(d1, chart_labels(bins))} :
                    /\ df' = d1
                    /\ tenure_chart' = Some(bars)
                    /\ analysis_raised' = IF ylim_raises(bars) THEN "ValueError" ELSE "none"
    /\ output' = IF analysis_raised' = "none"
                 THEN print(savefig(output, "tenure_churn_histogram.png"), sys_stdout,
                            <<"Saved to: tenure_churn_histogram.png">>)
                 ELSE output
    /\ UNCHANGED <<overall_churn_rate, grp, total_line>>

\* the categories of a binned column, in their order
Categories(col) ==
    IF col = "age_group" THEN AgeLabels
    ELSE IF col = "tenure_group" THEN TenureLabels
    ELSE <<>>

\* groupby on a categorical column: one row per category, ascending by
\* category; the categories without rows are kept unless observed
aggregate_categorical(d, col, observed) ==
    LET cats == Categories(col)
        present(v) == observed => churn_group(d, col, v) # <<>>
        at == Positions(cats, present, Len(cats))
    IN  Tabulate(Len(at), LAMBDA n :
            LET v  == cats[at[n]]
                ps == churn_group(d, col, v)
                t  == nunique(group_column(d, ps, "policy_id"))
                c  == sum_bool(group_column(d, ps, "churned"))
            IN  [Value |-> v, Total |-> t, Churned |-> c, Rate |-> Rate(100 * c, t)])

\* df.groupby(col).agg(...) of churn_table: the default of observed for a
\* categorical column is False or True with the pandas release
groups(d, col) ==
    IF d.dtypes[ColPos(d, col)] = "category"
    THEN {aggregate_categorical(d, col, observed) : observed \in BOOLEAN}
    ELSE {aggregate(d, col)}

\* row a may stand before row b after sort_values('Rate%', ascending=False):
\* NaN rates go last, the others by falling rate
MayPrecede(a, b) ==
    IF IsNaNRate(b.Rate) THEN TRUE
    ELSE IF IsNaNRate(a.Rate) THEN FALSE
    ELSE RateGE(a.Rate, b.Rate)

\* a plausible slip: the rows are left in the order of groupby
sort_values_unsorted(rows) == {rows}

\* the orders sort_values may leave the rows in; the sort (quicksort) is not
\* stable, so rows of equal rate may come out in either order; the rows of NaN
\* rate are appended after the sorted ones, in the order they had
sort_values(rows) ==
    LET has_rate(row) == ~IsNaNRate(row.Rate)
        no_rate(row)  == IsNaNRate(row.Rate)
    IN  With(Positions(rows, has_rate, Len(rows)), LAMBDA rated :
        With(Positions(rows, no_rate, Len(rows)), LAMBDA last :
            {Tabulate(Len(rows), LAMBDA n :
                 IF n <= Len(rated) THEN rows[rated[p[n]]] ELSE rows[last[n - Len(rated)]]) :
                p \in {q \in Permutations(DOMAIN rated) :
                         \A i, j \in DOMAIN rated :
                            i < j => MayPrecede(rows[rated[q[i]]], rows[rated[q[j]]])}}))

\* row['Rate%'] - overall_churn_rate, line 41: a/b - c/d = (ad - cb)/(bd)
diff(row, baseline) ==
    Rate(row.Rate.num * baseline.den - baseline.num * row.Rate.den,
         row.Rate.den * baseline.den)

\* lines 39-44: the rows printed for the sorted breakdown
printed_rows(sorted, baseline) ==
    Tabulate(Len(sorted), LAMBDA n :
        [Value   |-> sorted[n].Value,
         Total   |-> sorted[n].Total,
         Churned |-> sorted[n].Churned,
         Rate    |-> sorted[n].Rate,
         vs_avg  |-> diff(sorted[n], baseline)])

\* line 46: the TOTAL line printed under the rows
printed_total(sorted) ==
    [Total   |-> SumSeq(Tabulate(Len(sorted), LAMBDA n : sorted[n].Total)),
     Churned |-> SumSeq(Tabulate(Len(sorted), LAMBDA n : sorted[n].Churned))]

\* churn_table(df, col, title): the table printed and its TOTAL line
churn_table(col) ==
    \E agg \in groups(df, col) : \E sorted \in sort_values(agg) :
        /\ grp' = Some(printed_rows(sorted, overall_churn_rate))
        /\ total_line' = Some(printed_total(sorted))
        /\ UNCHANGED <<df, overall_churn_rate, tenure_chart, analysis_raised>>

----------------------------------------------------------------------------
(* Step 1 of the cleaning script, the quality checks: data_cleaning.py        *)
(* 64-243, sanity_checks.py 71-270.  The numbers of the checked columns are   *)
(* whole numbers.  A section of the report is NotYet while it is not written. *)

\* Series.isna().sum()
isna_sum(s) == Cardinality({i \in DOMAIN s : s[i] = NaN})

\* (Series == v).sum(): a NaN cell equals nothing
eq_sum(s, v) == Cardinality({i \in DOMAIN s : s[i] = Some(v)})

\* str.lower() of one cell; NaN stays NaN
str_lower(c) ==
    IF c = NaN THEN NaN
    ELSE IF c[1] \in {"Agent", "AGENT", "agent"} THEN Some("agent")
    ELSE IF c[1] \in {"Online", "online"} THEN Some("online")
    ELSE c

\* Series.str of a column that holds no string (all its cells empty, read as
\* float64) raises AttributeError
str_raises(d, col) == d.dtypes[ColPos(d, col)] # "object"

\* missing_df before the sort, lines 69-73: the columns with missing values
missing_counts(d) ==
    LET n(i) == Cardinality({r \in DOMAIN d.rows : d.rows[r][i] = NaN})
        some_missing(i) == n(i) > 0
        at == Positions([i \in DOMAIN d.columns |-> i], some_missing, Len(d.columns))
    IN  Tabulate(Len(at), LAMBDA k :
            [Column |-> d.columns[at[k]], Missing |-> n(at[k]),
             Percent |-> Rate(100 * n(at[k]), Len(d.rows))])

\* .sort_values('Missing', ascending=False), line 74: the admissible orders
missing_df(d) ==
    With(missing_counts(d), LAMBDA rows :
        {Tabulate(Len(rows), LAMBDA n : rows[p[n]]) :
            p \in {q \in Permutations(DOMAIN rows) :
                     \A i, j \in DOMAIN rows :
                        i < j => rows[q[i]].Missing >= rows[q[j]].Missing}})

\* justifications, lines 81-93, as the set of its (column, mark) items
justifications(d) ==
    LET ended ==
            IF HasCol(d, "churned") /\ HasCol(d, "policy_end_date")
            THEN LET tmp == MapColumnAs(d, "policy_end_date", to_datetime, "datetime64[ns]")
                 IN  IF isna_sum(Column(tmp, "policy_end_date"))
                            = eq_sum(Column(tmp, "churned"), FALSE)
                     THEN {<<"policy_end_date", "churned=False">>,
                           <<"churn_reason", "churned=False">>}
                     ELSE {}
            ELSE {}
        discount ==
            IF HasCol(d, "discount_applied") /\ HasCol(d, "discount_rate")
            THEN IF isna_sum(Column(d, "discount_rate"))
                        = eq_sum(Column(d, "discount_applied"), FALSE)
                 THEN {<<"discount_rate", "discount_applied=False">>}
                 ELSE {}
            ELSE {}
        agent ==
            IF HasCol(d, "acquisition_channel") /\ HasCol(d, "agent_id")
            THEN LET ch == Column(d, "acquisition_channel")
                 IN  IF isna_sum(Column(d, "agent_id"))
                            = Cardinality({i \in DOMAIN ch : str_lower(ch[i]) # Some("agent")})
                     THEN {<<"agent_id", "acquisition_channel != Agent">>}
                     ELSE {}
            ELSE {}
    IN  ended \cup discount \cup agent

\* justifications.get(col, '-'), line 99
justif(items, col) ==
    IF \E it \in items : it[1] = col THEN (CHOOSE it \in items : it[1] = col)[2] ELSE "-"

\* print_missing_values(df), lines 64-100: the outcomes, each the section
\* written and the exception raised
print_missing_values(d) ==
    IF missing_counts(d) = <<>>
    THEN {[raised |-> "none", section |-> Some([empty |-> TRUE, rows |-> <<>>])]}
    ELSE IF /\ HasCol(d, "acquisition_channel") /\ HasCol(d, "agent_id")
            /\ str_raises(d, "acquisition_channel")
    THEN {[raised |-> "AttributeError", section |-> NotYet]}
    ELSE With(justifications(d), LAMBDA items :
            {[raised  |-> "none",
              section |-> Some([empty |-> FALSE,
                                rows |-> Tabulate(Len(sorted), LAMBDA n :
                                    [Column  |-> sorted[n].Column,
                                     Missing |-> sorted[n].Missing,
                                     Percent |-> sorted[n].Percent,
                                     Justification |-> justif(items, sorted[n].Column)])])] :
                sorted \in missing_df(d)})

\* checks, lines 129-141: the numeric-range rules in their order
checks ==
    <<[col |-> "customer_age",           label |-> "not in [18-120]"],
      [col |-> "num_dependents",         label |-> "< 0"],
      [col |-> "coverage_amount",        label |-> "<= 0"],
      [col |-> "premium",                label |-> "<= 0"],
      [col |-> "tenure_months",          label |-> "< 0"],
      [col |-> "renewal_count",          label |-> "< 0"],
      [col |-> "num_riders",             label |-> "< 0"],
      [col |-> "late_payment_count",     label |-> "< 0"],
      [col |-> "customer_service_calls", label |-> "< 0"],
      [col |-> "premium_change_pct",     label |-> "not in [-1, 1]"],
      [col |-> "discount_rate",          label |-> "not in [0, 1]"]>>

\* the lambda of the rule of col applied to one cell; a NaN cell compares False
impossible(col, c) ==
    IF c = NaN THEN FALSE
    ELSE IF col = "customer_age" THEN c[1] < 18 \/ c[1] > 120
    ELSE IF col \in {"coverage_amount", "premium"} THEN c[1] <= 0
    ELSE IF col = "premium_change_pct" THEN c[1] < -1 \/ c[1] > 1
    ELSE IF col = "discount_rate" THEN c[1] < 0 \/ c[1] > 1
    ELSE c[1] < 0

\* end < start for two parsed dates
date_before(end, start) ==
    end = Some(Timestamp("2021-03-01")) /\ start = Some(Timestamp("2022-11-30"))

\* a plausible slip: a rule without violations is listed with its zero
finding_always(rule, n) == <<[rule |-> rule, n |-> n]>>

\* one finding when n > 0, none otherwise: `if n > 0: issues.append(...)`
finding(rule, n) == IF n > 0 THEN <<[rule |-> rule, n |-> n]>> ELSE <<>>

\* lines 142-146
range_issues(d) ==
    Flatten(Tabulate(Len(checks), LAMBDA k :
        IF HasCol(d, checks[k].col)
        THEN LET col == Column(d, checks[k].col)
             IN  finding(checks[k].col \o " " \o checks[k].label,
                         Cardinality({i \in DOMAIN col : impossible(checks[k].col, col[i])}))
        ELSE <<>>))

\* lines 148-155
date_issues(d) ==
    IF HasCol(d, "policy_start_date") /\ HasCol(d, "policy_end_date")
    THEN LET start == Column(d, "policy_start_date")
             end   == Column(d, "policy_end_date")
         IN  finding("policy_end_date before policy_start_date",
                     Cardinality({i \in DOMAIN start :
                         /\ to_datetime(start[i]) # NaN
                         /\ to_datetime(end[i]) # NaN
                         /\ date_before(to_datetime(end[i]), to_datetime(start[i]))}))
    ELSE <<>>

\* a plausible slip: only the direction churned=True without end date is counted
churned_issues_oneway(d) ==
    IF HasCol(d, "churned") /\ HasCol(d, "policy_end_date")
    THEN LET ch  == Column(d, "churned")
             end == Column(d, "policy_end_date")
         IN  finding("churned=True but policy_end_date missing",
                     Cardinality({i \in DOMAIN ch :
                         ch[i] = Some(TRUE) /\ to_datetime(end[i]) = NaN}))
    ELSE <<>>

\* lines 157-163
churned_issues(d) ==
    IF HasCol(d, "churned") /\ HasCol(d, "policy_end_date")
    THEN LET ch  == Column(d, "churned")
             end == Column(d, "policy_end_date")
         IN  finding("churned=True but policy_end_date missing",
                     Cardinality({i \in DOMAIN ch :
                         ch[i] = Some(TRUE) /\ to_datetime(end[i]) = NaN}))
             \o
             finding("policy_end_date exists but churned=False",
                     Cardinality({i \in DOMAIN ch :
                         to_datetime(end[i]) # NaN /\ ch[i] = Some(FALSE)}))
    ELSE <<>>

\* lines 165-169
discount_issues(d) ==
    IF HasCol(d, "discount_applied") /\ HasCol(d, "discount_rate")
    THEN LET ap   == Column(d, "discount_applied")
             rate == Column(d, "discount_rate")
         IN  finding("discount_applied=True but discount_rate missing",
                     Cardinality({i \in DOMAIN ap : ap[i] = Some(TRUE) /\ rate[i] = NaN}))
             \o
             finding("discount_rate exists but discount_applied=False",
                     Cardinality({i \in DOMAIN ap : rate[i] # NaN /\ ap[i] = Some(FALSE)}))
    ELSE <<>>

\* lines 171-176
agent_issues(d) ==
    IF HasCol(d, "acquisition_channel") /\ HasCol(d, "agent_id")
    THEN LET ch == Column(d, "acquisition_channel")
             id == Column(d, "agent_id")
             is_agent(i) == str_lower(ch[i]) = Some("agent")
         IN  finding("acquisition_channel=Agent but agent_id missing",
                     Cardinality({i \in DOMAIN ch : is_agent(i) /\ id[i] = NaN}))
             \o
             finding("agent_id exists but acquisition_channel != Agent",
                     Cardinality({i \in DOMAIN ch : id[i] # NaN /\ ~is_agent(i)}))
    ELSE <<>>

\* print_impossible_values(df), lines 123-183: the section written (the list
\* of findings, and whether "No impossible values detected." is printed) and
\* the exception raised
print_impossible_values(d) ==
    IF /\ HasCol(d, "acquisition_channel") /\ HasCol(d, "agent_id")
       /\ str_raises(d, "acquisition_channel")
    THEN [raised |-> "AttributeError", section |-> NotYet]
    ELSE With(range_issues(d) \o date_issues(d) \o churned_issues(d)
                \o discount_issues(d) \o agent_issues(d), LAMBDA issues :
            [raised  |-> "none",
             section |-> Some([issues |-> issues, none_detected |-> issues = <<>>])])

\* numeric_cols, lines 191-195
numeric_cols ==
    <<"customer_age", "coverage_amount", "premium", "tenure_months", "num_dependents",
      "renewal_count", "num_riders", "late_payment_count", "customer_service_calls",
      "premium_change_pct", "discount_rate">>

\* the numbers of s (cells, none NaN) in ascending order
RECURSIVE sort_numbers(_)
sort_numbers(s) ==
    IF s = <<>> THEN <<>>
    ELSE LET m == CHOOSE i \in DOMAIN s : \A j \in DOMAIN s : s[i][1] <= s[j][1]
         IN  <<s[m][1]>> \o sort_numbers(SubSeq(s, 1, m - 1) \o SubSeq(s, m + 1, Len(s)))

\* a plausible slip: the quartile is the value at the rank below, not interpolated
quantile_lower(s, q) ==
    With(sort_numbers(s), LAMBDA x : Rate(4 * x[(((Len(x) - 1) * q) \div 4) + 1], 4))

\* Series.quantile(q / 4), linear interpolation between the two nearest ranks
quantile(s, q) ==
    With(sort_numbers(s), LAMBDA x :
        LET pos == (Len(x) - 1) * q
            lo  == (pos \div 4) + 1
            fr  == pos % 4
        IN  Rate(4 * x[lo] + (IF fr = 0 THEN 0 ELSE fr * (x[lo + 1] - x[lo])), 4))

\* a plausible slip: a value on a bound is counted as an outlier
outlier_row_closed(col, s) ==
    LET q1    == quantile(s, 1)
        q3    == quantile(s, 3)
        iqr   == Rate(q3.num - q1.num, 4)
        lower == Rate(2 * q1.num - 3 * iqr.num, 8)
        upper == Rate(2 * q3.num + 3 * iqr.num, 8)
        n_out == Cardinality({i \in DOMAIN s :
                     8 * s[i][1] <= lower.num \/ 8 * s[i][1] >= upper.num})
    IN  IF iqr.num = 0 THEN <<>>
        ELSE <<[col |-> col, q1 |-> q1, q3 |-> q3, iqr |-> iqr, lower |-> lower,
                upper |-> upper, n_out |-> n_out, pct |-> Rate(100 * n_out, Len(s))]>>

\* the body of the loop for one column with values, lines 206-216: its row,
\* or none when the IQR is zero
outlier_row(col, s) ==
    LET q1    == quantile(s, 1)
        q3    == quantile(s, 3)
        iqr   == Rate(q3.num - q1.num, 4)
        lower == Rate(2 * q1.num - 3 * iqr.num, 8)
        upper == Rate(2 * q3.num + 3 * iqr.num, 8)
        n_out == Cardinality({i \in DOMAIN s :
                     8 * s[i][1] < lower.num \/ 8 * s[i][1] > upper.num})
    IN  IF iqr.num = 0 THEN <<>>
        ELSE <<[col |-> col, q1 |-> q1, q3 |-> q3, iqr |-> iqr, lower |-> lower,
                upper |-> upper, n_out |-> n_out, pct |-> Rate(100 * n_out, Len(s))]>>

\* print_outliers(df), lines 186-219: the rows printed and whether
\* "No outliers detected." is printed
print_outliers(d) ==
    With(Flatten(Tabulate(Len(numeric_cols), LAMBDA k :
            IF ~HasCol(d, numeric_cols[k]) THEN <<>>
            ELSE With(dropna(Column(d, numeric_cols[k])), LAMBDA s :
                    IF Len(s) = 0 THEN <<>> ELSE outlier_row(numeric_cols[k], s)))),
         LAMBDA rows :
            [rows |-> rows,
             none_detected |-> ~(\E n \in DOMAIN rows : rows[n].n_out > 0)])

\* print_shape(df), lines 21-26
print_shape(d) == [rows |-> Len(d.rows), columns |-> Len(d.columns)]

\* the headings of the seven checks, each printed first by its check, in the
\* order lines 231-237 call the checks
Headings ==
    <<"1. SHAPE", "2. DATA TYPES", "3. CATEGORICAL DISTRIBUTION", "4. MISSING VALUES",
      "5. DUPLICATES", "6. IMPOSSIBLE VALUES", "7. OUTLIERS">>

\* what the checks wrote and the exception that ended them
Report(shape, in_missing, in_impossible, in_outliers, exc) ==
    [shape |-> shape, missing |-> in_missing, impossible |-> in_impossible,
     outliers |-> in_outliers, raised |-> exc]

\* lines 230-240: read_csv and the seven checks in their order; an exception
\* ends them and leaves the later sections unwritten.  The outcomes, each the
\* sections written and the lines printed.  Shape, data types, categorical
\* distribution and duplicates raise on no table.
battery(csv) ==
    IF csv = NoFile
    THEN {[report |-> Report(NotYet, NotYet, NotYet, NotYet, "FileNotFoundError"),
           lines  |-> <<>>]}
    ELSE With(print_impossible_values(csv), LAMBDA v :
         With(Some(print_shape(csv)), LAMBDA shape :
            {IF m.raised # "none"
             THEN [report |-> Report(shape, m.section, NotYet, NotYet, m.raised),
                   lines  |-> SubSeq(Headings, 1, 4)]
             ELSE IF v.raised # "none"
             THEN [report |-> Report(shape, m.section, NotYet, NotYet, v.raised),
                   lines  |-> SubSeq(Headings, 1, 6)]
             ELSE [report |-> Report(shape, m.section, v.section,
                                     Some(print_outliers(csv)), "none"),
                   lines  |-> Headings \o <<"CHECKS COMPLETE">>] :
                m \in print_missing_values(csv)}))

\* run_quality_checks(), lines 222-243: sys.stdout is the report file while
\* the checks run; an exception leaves the function after the finally block
run_quality_checks ==
    \E original_stdout \in {sys_stdout} : \E r \in battery(policies_csv) :
    \E restored \in {finally(original_stdout, SANITY_OUTPUT, r.report.raised)} :
        /\ sanity_report' = Some(r.report)
        /\ sys_stdout' = restored
        /\ output' =
              With(print(open(output, SANITY_OUTPUT), SANITY_OUTPUT,
                         <<"DATA QUALITY CHECKS">> \o r.lines), LAMBDA written :
                  IF r.report.raised = "none"
                  THEN print(written, restored, <<"Saved to: sanity_checks_report.txt">>)
                  ELSE written)

\* the line main prints for the exception it catches, sanity_checks.py 271-274
error_line(exc) ==
    IF exc = "none" THEN <<>>
    ELSE IF exc = "FileNotFoundError" THEN <<"Error: 'policies.csv' not found.">>
    ELSE <<"Error: " \o exc>>

\* main() of sanity_checks.py, lines 246-278: the same checks; the exception
\* is caught while sys.stdout is still the report file, and the finally block
\* prints after it has put sys.stdout back
main ==
    \E original_stdout \in {sys_stdout} : \E r \in battery(policies_csv) :
    \E restored \in {finally(original_stdout, SANITY_OUTPUT, "none")} :
        /\ sanity_report' = Some(r.report)
        /\ sys_stdout' = restored
        /\ output' =
              print(print(open(output, SANITY_OUTPUT), SANITY_OUTPUT,
                          <<"DATA SANITY CHECKS">> \o r.lines \o error_line(r.report.raised)),
                    restored, <<"Report saved to: sanity_checks_report.txt">>)

----------------------------------------------------------------------------
(* Bounds and inputs *)

MaxSeries    == 4   \* observations of one customer passed to resolve
MaxRows      == 3   \* rows of policies.csv, standardization inputs
MaxFrameRows == 2   \* rows of policies.csv, raw-field inputs
MaxChurnRows == 3   \* rows of policies_standardized.csv read by the analysis

Genders   == {"F", "M", "Other"}
Countries == {"IL", "US"}

Opt(S) == {NaN} \cup {Some(v) : v \in S}

EmptyFrame == DataFrame(<<>>, <<>>, <<>>)

CleaningColumns ==
    <<"policy_id", "customer_id", "customer_gender", "country", "income_band",
      "policy_start_date">>

\* policies.csv with the rows chosen by f, one choice per row
CleaningTable(f) ==
    DataFrame(CleaningColumns,
              Tabulate(Len(CleaningColumns), LAMBDA i : "object"),
              Tabulate(Len(f), LAMBDA i :
                  <<Some("P" \o ToString(i)), f[i].customer_id, f[i].customer_gender,
                    f[i].country, f[i].income_band, f[i].policy_start_date>>))

\* inputs that vary whose customer a row is and what it reports
StdChoices ==
    [customer_id : Opt({"C1", "C2"}), customer_gender : Opt({"F", "M"}),
     country : {Some(c) : c \in Countries}, income_band : {Some("High")},
     policy_start_date : {Some("2021-03-01")}]

\* inputs that vary the raw fields the preparation touches
FrameChoices ==
    [customer_id : Opt({"C1"}), customer_gender : Opt({"F"}),
     country : {Some("IL")}, income_band : Opt({"High"}),
     policy_start_date : Opt({"2021-03-01", "01.03.21?"})]

ChurnColumns == <<"policy_id", "product_type", "churned">>

ChurnChoices ==
    [policy_id : Opt({"P1", "P2"}), product_type : Opt(Range(GroupValues)),
     churned : {Some(TRUE), Some(FALSE)}]

ChurnFrame(f) ==
    DataFrame(ChurnColumns, <<"object", "object", "bool">>,
              Tabulate(Len(f), LAMBDA i : <<f[i].policy_id, f[i].product_type, f[i].churned>>))

MaxAgeRows    == 2   \* rows of policies_standardized.csv, age inputs
MaxTenureRows == 2   \* rows of policies_standardized.csv, tenure inputs

\* ages on both sides of the edges of the first, the second and the last band
AgeChoices ==
    [customer_age : Opt({17, 18, 30, 31, 70, 71, 120, 121}),
     churned : {Some(TRUE), Some(FALSE)}]

AgeFrame(f) ==
    DataFrame(<<"policy_id", "customer_age", "churned">>, <<"object", "float64", "bool">>,
              Tabulate(Len(f), LAMBDA i :
                  <<Some("P" \o ToString(i)), f[i].customer_age, f[i].churned>>))

\* tenures of -1, 0, 11.5, 12, 120 and 9999 months, in half months
TenureChoices ==
    [tenure_months : Opt({-2, 0, 23, 24, 240, 19998}),
     churned : {Some(TRUE), Some(FALSE)}]

TenureFrame(f) ==
    DataFrame(<<"policy_id", "tenure_months", "churned">>, <<"object", "float64", "bool">>,
              Tabulate(Len(f), LAMBDA i :
                  <<Some("P" \o ToString(i)), f[i].tenure_months, f[i].churned>>))

MaxMissingRows    == 3   \* rows of policies.csv, missing-value inputs
MaxImpossibleRows == 2   \* rows of policies.csv, impossible-value inputs
MaxOutlierRows    == 5   \* rows of policies.csv, outlier inputs

\* the type read_csv gives a column: float64 when every cell is empty, and a
\* column of whole numbers or of booleans with an empty cell is float64, object
read_csv_dtype(values, base) ==
    IF values = <<>> THEN "object"
    ELSE IF \A i \in DOMAIN values : values[i] = NaN THEN "float64"
    ELSE IF \E i \in DOMAIN values : values[i] = NaN
         THEN (IF base = "int64" THEN "float64" ELSE "object")
    ELSE base

\* policies.csv with the columns cols and the rows chosen by f
QualityFrame(cols, base, f) ==
    DataFrame(cols,
              Tabulate(Len(cols), LAMBDA j :
                  read_csv_dtype(Tabulate(Len(f), LAMBDA i : f[i][cols[j]]), base[j])),
              Tabulate(Len(f), LAMBDA i : Tabulate(Len(cols), LAMBDA j : f[i][cols[j]])))

BadDate == "31/11/2022"

EndedColumns == <<"churned", "policy_end_date", "churn_reason">>
EndedTypes   == <<"bool", "object", "object">>
EndedChoices ==
    [churned : {Some(TRUE), Some(FALSE)}, policy_end_date : Opt({"2022-11-30", BadDate}),
     churn_reason : Opt({"Price"})]

DiscountColumns == <<"discount_applied", "discount_rate">>
DiscountTypes   == <<"bool", "int64">>
DiscountChoices ==
    [discount_applied : {Some(TRUE), Some(FALSE)}, discount_rate : Opt({-1, 1})]

AgentColumns == <<"acquisition_channel", "agent_id">>
AgentTypes   == <<"object", "object">>
AgentChoices ==
    [acquisition_channel : Opt({"Agent", "AGENT", "Online"}), agent_id : Opt({"A1"})]

DatesColumns == <<"policy_start_date", "policy_end_date", "churned">>
DatesTypes   == <<"object", "object", "bool">>
DatesChoices ==
    [policy_start_date : Opt(DateStrings), policy_end_date : Opt(DateStrings \cup {BadDate}),
     churned : {Some(TRUE), Some(FALSE)}]

RangeColumns == <<"premium", "customer_age">>
RangeTypes   == <<"int64", "int64">>
RangeChoices == [premium : Opt({0, 1}), customer_age : Opt({17, 18, 121})]

OutlierChoices == [customer_age : Opt({1, 2, 3, 6})]

\* beside customer_age a premium column that is empty or holds one value
SkippedChoices(c) == [premium : {c}, customer_age : Opt({1, 2, 3, 6})]

MaxExampleNulls == 1   \* empty cells beside the six values of the example column

\* six values with one far from the rest
ExampleData == <<1, 2, 3, 4, 5, 100>>

MaxPipelineRows == 1   \* rows of policies.csv, inputs of the whole pipeline

\* the columns the two scripts read
PipelineColumns ==
    <<"policy_id", "customer_id", "customer_gender", "country", "customer_age",
      "premium", "coverage_amount", "tenure_months", "churned", "product_type",
      "payment_frequency", "acquisition_channel", "agent_id", "late_payment_count",
      "customer_service_calls", "beneficiary_updated", "marital_status", "income_band",
      "discount_applied", "has_rider", "critical_illness_rider", "disability_rider",
      "num_dependents">>

PipelineTypes ==
    <<"object", "object", "object", "object", "int64",
      "int64", "int64", "int64", "bool", "object",
      "object", "object", "object", "int64",
      "int64", "bool", "object", "object",
      "bool", "bool", "bool", "bool",
      "int64">>

\* what varies from row to row: the flag, the channel, the tenure (12 months)
PipelineChoices ==
    [churned : {Some(TRUE), Some(FALSE)}, acquisition_channel : Opt({"Agent"}),
     tenure_months : Opt({Months(12)})]

\* row i of policies.csv
PipelineRow(choice, i) ==
    [policy_id |-> Some("P" \o ToString(i)), customer_id |-> Some("C1"),
     customer_gender |-> Some("F"), country |-> Some("IL"), customer_age |-> Some(30),
     premium |-> Some(1), coverage_amount |-> Some(2),
     tenure_months |-> choice.tenure_months, churned |-> choice.churned,
     product_type |-> Some("Term"), payment_frequency |-> Some("Monthly"),
     acquisition_channel |-> choice.acquisition_channel, agent_id |-> Some("A1"),
     late_payment_count |-> Some(0), customer_service_calls |-> Some(1),
     beneficiary_updated |-> Some(FALSE), marital_status |-> Some("Single"),
     income_band |-> Some("High"), discount_applied |-> Some(FALSE),
     has_rider |-> Some(TRUE), critical_illness_rider |-> Some(FALSE),
     disability_rider |-> Some(FALSE), num_dependents |-> Some(2)]

\* policies.csv with the rows chosen by f and without the column absent
PipelineTable(f, absent) ==
    LET kept(c) == c # absent
        at == Positions(PipelineColumns, kept, Len(PipelineColumns))
    IN  QualityFrame(Tabulate(Len(at), LAMBDA j : PipelineColumns[at[j]]),
                     Tabulate(Len(at), LAMBDA j : PipelineTypes[at[j]]),
                     Tabulate(Len(f), LAMBDA i : PipelineRow(f[i], i)))

----------------------------------------------------------------------------
(* The analysis script exploratory_analysis.py as a whole: the module level, *)
(* lines 298-313, and its four steps.                                         *)

\* the text to_csv writes for a parsed date
date_text(c) ==
    IF c = NaN THEN NaN
    ELSE IF \E str \in DateStrings : c[1] = Timestamp(str)
         THEN Some(CHOOSE str \in DateStrings : c[1] = Timestamp(str))
    ELSE c

\* pd.read_csv of a table that to_csv wrote: a date is read back as text, the
\* type of every column is inferred again
read_csv(file) ==
    With(Tabulate(Len(file.rows), LAMBDA r :
            Tabulate(Len(file.columns), LAMBDA i :
                IF file.dtypes[i] = "datetime64[ns]"
                THEN date_text(file.rows[r][i]) ELSE file.rows[r][i])), LAMBDA rows :
        DataFrame(file.columns,
                  Tabulate(Len(file.columns), LAMBDA i :
                      read_csv_dtype(Tabulate(Len(rows), LAMBDA r : rows[r][i]),
                                     IF file.dtypes[i] \in {"datetime64[ns]", "category"}
                                     THEN "object"
                                     ELSE IF file.dtypes[i] = "float64"
                                             /\ \A r \in DOMAIN rows : rows[r][i] # NaN
                                          THEN "int64"
                                     ELSE file.dtypes[i])),
                  rows))

\* df['price_per_coverage'] = df['premium'] / df['coverage_amount'], line 301
price_per_coverage(d) ==
    LET p == ColPos(d, "premium")
        c == ColPos(d, "coverage_amount")
    IN  assign(d, "price_per_coverage", "float64",
               Tabulate(Len(d.rows), LAMBDA r :
                   IF d.rows[r][p] = NaN \/ d.rows[r][c] = NaN THEN NaN
                   ELSE Some(Rate(d.rows[r][p][1], d.rows[r][c][1]))))

\* the module level, lines 298-313, on the table read: the table and the
\* baseline as the first KeyError, or the last line, leaves them
module_level(d, baseline) ==
    IF ~HasCol(d, "churned")
    THEN [df |-> d, overall_churn_rate |-> baseline, raised |-> "KeyError"]
    ELSE With(churn_mean(d), LAMBDA rate :
        IF ~(HasCol(d, "premium") /\ HasCol(d, "coverage_amount"))
        THEN [df |-> d, overall_churn_rate |-> rate, raised |-> "KeyError"]
        ELSE With(price_per_coverage(d), LAMBDA d1 :
            IF ~HasCol(d1, "customer_age")
            THEN [df |-> d1, overall_churn_rate |-> rate, raised |-> "KeyError"]
            ELSE With(age_group(d1), LAMBDA d2 :
                IF ~HasCol(d2, "tenure_months")
                THEN [df |-> d2, overall_churn_rate |-> rate, raised |-> "KeyError"]
                ELSE [df |-> tenure_group(d2), overall_churn_rate |-> rate,
                      raised |-> "none"])))

\* the sections of run_churn_report and the breakdowns of each, lines 64-108
Sections ==
    <<[heading |-> "SECTION 1: POLICY CHARACTERISTICS",
       tables  |-> <<[col |-> "product_type",        title |-> "Product Type"],
                     [col |-> "payment_frequency",   title |-> "Payment Frequency"],
                     [col |-> "acquisition_channel", title |-> "Acquisition Channel"]>>],
      [heading |-> "SECTION 2: CUSTOMER BEHAVIOR SIGNALS",
       tables  |-> <<[col |-> "late_payment_count",     title |-> "Late Payment Count"],
                     [col |-> "customer_service_calls", title |-> "Customer Service Calls"],
                     [col |-> "beneficiary_updated",    title |-> "Beneficiary Updated"]>>],
      [heading |-> "SECTION 3: CUSTOMER DEMOGRAPHICS",
       tables  |-> <<[col |-> "age_group",           title |-> "Age Group"],
                     [col |-> "customer_gender_std", title |-> "Gender (standardized)"],
                     [col |-> "marital_status",      title |-> "Marital Status"],
                     [col |-> "income_band",         title |-> "Income Band"],
                     [col |-> "country_std",         title |-> "Country (standardized)"]>>],
      [heading |-> "SECTION 4: ADD-ONS AND DISCOUNTS",
       tables  |-> <<[col |-> "discount_applied",       title |-> "Discount Applied"],
                     [col |-> "has_rider",              title |-> "Has Rider"],
                     [col |-> "critical_illness_rider", title |-> "Critical Illness Rider"],
                     [col |-> "disability_rider",       title |-> "Disability Rider"]>>],
      [heading |-> "SECTION 5: NUMERIC POLICY CHARACTERISTICS",
       tables  |-> <<[col |-> "tenure_group",   title |-> "Tenure Group"],
                     [col |-> "num_dependents", title |-> "Number of Dependents"]>>]>>

\* a plausible slip: the heading of a section is printed under its breakdowns
Statements_heading_last ==
    Flatten(Tabulate(Len(Sections), LAMBDA k :
        Tabulate(Len(Sections[k].tables), LAMBDA j :
            [line |-> Sections[k].tables[j].title, col |-> Sections[k].tables[j].col])
        \o <<[line |-> Sections[k].heading, col |-> ""]>>))

\* the prints and the calls of churn_table in the order of lines 64-108
Statements ==
    Flatten(Tabulate(Len(Sections), LAMBDA k :
        <<[line |-> Sections[k].heading, col |-> ""]>>
        \o Tabulate(Len(Sections[k].tables), LAMBDA j :
              [line |-> Sections[k].tables[j].title, col |-> Sections[k].tables[j].col])))

\* df.groupby(col).agg(Total=('policy_id', ...), Churned=('churned', ...))
\* raises KeyError on a column that is absent
churn_table_raises(d, col) ==
    ~(HasCol(d, col) /\ HasCol(d, "policy_id") /\ HasCol(d, "churned"))

\* the statements that run before the first churn_table that raises
RECURSIVE completed(_, _)
completed(d, n) ==
    IF n = 0 THEN 0
    ELSE LET k == completed(d, n - 1)
         IN  IF k = n - 1 /\ (Statements[n].col = "" \/ ~churn_table_raises(d, Statements[n].col))
             THEN n ELSE k

\* run_churn_report(), lines 50-113: sys.stdout is the report file while the
\* report is printed; grp is the breakdown printed last
run_churn_report ==
    \E original_stdout \in {sys_stdout} : \E k \in {completed(df, Len(Statements))} :
    \E exc \in {IF k = Len(Statements) THEN "none" ELSE "KeyError"} :
    \E restored \in {finally(original_stdout, CHURN_OUTPUT, exc)} :
        /\ analysis_raised' = exc
        /\ sys_stdout' = restored
        /\ output' =
              With(print(open(output, CHURN_OUTPUT), CHURN_OUTPUT,
                         <<"CHURN RATE ANALYSIS">>
                         \o Tabulate(k, LAMBDA n : Statements[n].line)), LAMBDA written :
                  IF exc = "none"
                  THEN print(written, restored, <<"Saved to: churn_rate_report.txt">>)
                  ELSE written)
        /\ LET tables == {n \in 1..k : Statements[n].col # ""}
           IN  IF tables = {} THEN UNCHANGED <<grp, total_line>>
               ELSE \E last \in {Statements[CHOOSE n \in tables : \A m \in tables : m <= n].col} :
                    \E agg \in groups(df, last) : \E sorted \in sort_values(agg) :
                        /\ grp' = Some(printed_rows(sorted, overall_churn_rate))
                        /\ total_line' = Some(printed_total(sorted))
        /\ UNCHANGED <<df, overall_churn_rate, tenure_chart>>

\* max(vals) of no value raises ValueError; ax.set_ylim(0, max(vals) * 1.25),
\* line 195, refuses a limit that is NaN or infinite
risky_ylim_raises(rows) ==
    \/ rows = <<>>
    \/ \A n \in DOMAIN rows : IsNaNRate(rows[n].Rate)
    \/ \E n \in DOMAIN rows : IsInfRate(rows[n].Rate)

\* run_risky_channels(), lines 175-240: the chart by payment frequency is
\* saved before the table by acquisition channel is computed
run_risky_channels ==
    /\ IF churn_table_raises(df, "payment_frequency")
       THEN analysis_raised' = "KeyError" /\ UNCHANGED output
       ELSE IF risky_ylim_raises(aggregate(df, "payment_frequency"))
       THEN analysis_raised' = "ValueError" /\ UNCHANGED output
       ELSE /\ output' = print(savefig(output, "risky_payment.png"), sys_stdout,
                               <<"Saved to: risky_payment.png">>)
            /\ analysis_raised' = IF churn_table_raises(df, "acquisition_channel")
                                  THEN "KeyError" ELSE "none"
    /\ UNCHANGED <<df, overall_churn_rate, grp, total_line, tenure_chart>>

\* run_price_coverage_chart(), lines 247-291: a box per product type, of the
\* prices per coverage that are finite
run_price_coverage_chart ==
    /\ IF ~(HasCol(df, "product_type") /\ HasCol(df, "price_per_coverage"))
       THEN analysis_raised' = "KeyError" /\ UNCHANGED output
       ELSE /\ analysis_raised' = "none"
            /\ output' = print(savefig(output, "price_per_coverage_plot.png"), sys_stdout,
                               <<"Saved to: price_per_coverage_plot.png">>)
    /\ UNCHANGED <<df, overall_churn_rate, grp, total_line, tenure_chart>>

----------------------------------------------------------------------------
(* Specifications *)

IdleResolve == series = <<>> /\ resolved = NotYet

\* no script is running: print goes to the console, no report file exists
IdleRun ==
    /\ sys_stdout = "console"
    /\ output = NoOutput
    /\ pc = "idle"

IdleClean ==
    /\ policies_csv = EmptyFrame
    /\ df_customer = NotYet
    /\ policies_standardized = NoFile
    /\ stage = "idle"
    /\ raised = "none"
    /\ sanity_report = NotYet
    /\ IdleRun

IdleChurn ==
    /\ df = EmptyFrame
    /\ overall_churn_rate = Rate(0, 0)
    /\ grp = NotYet
    /\ total_line = NotYet
    /\ tenure_chart = NotYet
    /\ analysis_raised = "none"

\* one call of resolve
Resolve ==
    /\ resolved = NotYet
    /\ resolved' = Some(resolve(series))
    /\ UNCHANGED <<series, cleanVars, churnVars, qualityVars, runVars>>

\* one run of the cleaning step on the file policies.csv
RunDataCleaning ==
    /\ stage \in {"input", "fed back"}
    /\ stage = "fed back" => policies_standardized # NoFile
    /\ run_data_cleaning
    /\ stage' = IF stage = "input" THEN "cleaned" ELSE "cleaned again"
    /\ UNCHANGED <<resolveVars, churnVars, qualityVars, sys_stdout, pc>>

\* the operator makes the standardized table the input of a second run
FeedBack ==
    /\ stage = "cleaned"
    /\ policies_standardized # NoFile
    /\ policies_csv' = policies_standardized[1]
    /\ stage' = "fed back"
    /\ UNCHANGED <<df_customer, policies_standardized, raised, resolveVars, churnVars,
                   qualityVars, runVars>>

\* one breakdown of the churn report
ChurnTable ==
    /\ grp = NotYet
    /\ churn_table("product_type")
    /\ UNCHANGED <<resolveVars, cleanVars, qualityVars, runVars>>

\* module level, lines 302-306: the age bands are added to the table
AgeGroup ==
    /\ HasCol(df, "customer_age") /\ ~HasCol(df, "age_group")
    /\ df' = age_group(df)
    /\ UNCHANGED <<overall_churn_rate, grp, total_line, tenure_chart, analysis_raised>>
    /\ UNCHANGED <<resolveVars, cleanVars, qualityVars, runVars>>

\* module level, lines 307-313: the tenure bands are added to the table
TenureGroup ==
    /\ HasCol(df, "tenure_months") /\ ~HasCol(df, "tenure_group")
    /\ df' = tenure_group(df)
    /\ UNCHANGED <<overall_churn_rate, grp, total_line, tenure_chart, analysis_raised>>
    /\ UNCHANGED <<resolveVars, cleanVars, qualityVars, runVars>>

\* the breakdown by age band of the churn report, line 86
ChurnTableAge ==
    /\ HasCol(df, "age_group")
    /\ grp = NotYet
    /\ churn_table("age_group")
    /\ UNCHANGED <<resolveVars, cleanVars, qualityVars, runVars>>

\* the breakdown by tenure band of the churn report, line 107
ChurnTableTenure ==
    /\ HasCol(df, "tenure_group")
    /\ grp = NotYet
    /\ churn_table("tenure_group")
    /\ UNCHANGED <<resolveVars, cleanVars, qualityVars, runVars>>

\* step 2 of the analysis, after the churn report
RunTenureChart ==
    /\ HasCol(df, "tenure_group")
    /\ grp # NotYet
    /\ tenure_chart = NotYet /\ analysis_raised = "none"
    /\ run_tenure_chart
    /\ UNCHANGED <<resolveVars, cleanVars, qualityVars, sys_stdout, pc>>

\* step 1 of the cleaning script: the checks of policies.csv
RunQualityChecks ==
    /\ stage = "input"
    /\ sanity_report = NotYet
    /\ run_quality_checks
    /\ UNCHANGED <<resolveVars, cleanVars, churnVars, pc>>

\* the standalone script sanity_checks.py
SanityChecksMain ==
    /\ stage = "input"
    /\ sanity_report = NotYet
    /\ main
    /\ UNCHANGED <<resolveVars, cleanVars, churnVars, pc>>

\* data_cleaning.py, lines 309-312: step 1; an exception leaves the script
CleaningStep1 ==
    /\ pc = "data_cleaning.py"
    /\ run_quality_checks
    /\ pc' = IF sanity_report'[1].raised = "none"
             THEN "STEP 2 - DATA CLEANING" ELSE "Traceback"
    /\ UNCHANGED <<resolveVars, cleanVars, churnVars>>

\* data_cleaning.py, lines 314-318: step 2; then analysis.py runs the analysis
CleaningStep2 ==
    /\ pc = "STEP 2 - DATA CLEANING"
    /\ run_data_cleaning
    /\ stage' = "cleaned"
    /\ pc' = IF raised' = "none" THEN "exploratory_analysis.py" ELSE "Traceback"
    /\ UNCHANGED <<resolveVars, churnVars, qualityVars, sys_stdout>>

\* exploratory_analysis.py, lines 298-313: the table is read and extended
ModuleLevel ==
    /\ pc = "exploratory_analysis.py"
    /\ IF policies_standardized = NoFile
       THEN /\ analysis_raised' = "FileNotFoundError"
            /\ UNCHANGED <<df, overall_churn_rate>>
       ELSE \E m \in {module_level(read_csv(policies_standardized[1]), overall_churn_rate)} :
            /\ df' = m.df
            /\ overall_churn_rate' = m.overall_churn_rate
            /\ analysis_raised' = m.raised
    /\ pc' = IF analysis_raised' = "none" THEN "STEP 1 - CHURN RATE REPORT" ELSE "Traceback"
    /\ UNCHANGED <<grp, total_line, tenure_chart, sys_stdout, output>>
    /\ UNCHANGED <<resolveVars, cleanVars, qualityVars>>

\* exploratory_analysis.py, lines 315-318
ChurnReport ==
    /\ pc = "STEP 1 - CHURN RATE REPORT"
    /\ run_churn_report
    /\ pc' = IF analysis_raised' = "none"
             THEN "STEP 2 - CHURN BY TENURE CHART" ELSE "Traceback"
    /\ UNCHANGED <<resolveVars, cleanVars, qualityVars>>

\* exploratory_analysis.py, lines 320-324
TenureChart ==
    /\ pc = "STEP 2 - CHURN BY TENURE CHART"
    /\ run_tenure_chart
    /\ pc' = IF analysis_raised' = "none" THEN "STEP 3 - RISKY CHANNELS" ELSE "Traceback"
    /\ UNCHANGED <<resolveVars, cleanVars, qualityVars, sys_stdout>>

\* exploratory_analysis.py, lines 326-330
RiskyChannels ==
    /\ pc = "STEP 3 - RISKY CHANNELS"
    /\ run_risky_channels
    /\ pc' = IF analysis_raised' = "none"
             THEN "STEP 4 - PRICE-PER-COVERAGE CHART" ELSE "Traceback"
    /\ UNCHANGED <<resolveVars, cleanVars, qualityVars, sys_stdout>>

\* exploratory_analysis.py, lines 332-336: the last step of the pipeline
PriceCoverageChart ==
    /\ pc = "STEP 4 - PRICE-PER-COVERAGE CHART"
    /\ run_price_coverage_chart
    /\ pc' = IF analysis_raised' = "none" THEN "done" ELSE "Traceback"
    /\ UNCHANGED <<resolveVars, cleanVars, qualityVars, sys_stdout>>

InitResolve ==
    /\ \E k \in 0..MaxSeries : series \in [1..k -> Opt(Genders)]
    /\ resolved = NotYet
    /\ IdleClean /\ IdleChurn

InitStd ==
    /\ \E k \in 0..MaxRows : \E f \in [1..k -> StdChoices] :
          policies_csv = CleaningTable(f)
    /\ df_customer = NotYet
    /\ policies_standardized = NoFile
    /\ stage = "input"
    /\ raised = "none"
    /\ sanity_report = NotYet
    /\ IdleRun
    /\ IdleResolve /\ IdleChurn

InitFrame ==
    /\ \E k \in 0..MaxFrameRows : \E f \in [1..k -> FrameChoices] :
          policies_csv = CleaningTable(f)
    /\ df_customer = NotYet
    /\ policies_standardized = NoFile
    /\ stage = "input"
    /\ raised = "none"
    /\ sanity_report = NotYet
    /\ IdleRun
    /\ IdleResolve /\ IdleChurn

\* the analysis script has loaded its table and computed the baseline
InitChurn ==
    /\ \E k \in 0..MaxChurnRows : \E f \in [1..k -> ChurnChoices] :
          df = ChurnFrame(f)
    /\ overall_churn_rate = churn_mean(df)
    /\ grp = NotYet
    /\ total_line = NotYet
    /\ tenure_chart = NotYet
    /\ analysis_raised = "none"
    /\ IdleResolve /\ IdleClean

\* the analysis script has loaded a table that holds the ages
InitAge ==
    /\ \E k \in 0..MaxAgeRows : \E f \in [1..k -> AgeChoices] :
          df = AgeFrame(f)
    /\ overall_churn_rate = churn_mean(df)
    /\ grp = NotYet
    /\ total_line = NotYet
    /\ tenure_chart = NotYet
    /\ analysis_raised = "none"
    /\ IdleResolve /\ IdleClean

\* the analysis script has loaded a table that holds the tenures
InitTenure ==
    /\ \E k \in 0..MaxTenureRows : \E f \in [1..k -> TenureChoices] :
          df = TenureFrame(f)
    /\ overall_churn_rate = churn_mean(df)
    /\ grp = NotYet
    /\ total_line = NotYet
    /\ tenure_chart = NotYet
    /\ analysis_raised = "none"
    /\ IdleResolve /\ IdleClean

\* policies.csv is in place and nothing has run
AwaitingChecks ==
    /\ df_customer = NotYet
    /\ policies_standardized = NoFile
    /\ stage = "input"
    /\ raised = "none"
    /\ sanity_report = NotYet
    /\ IdleRun
    /\ IdleResolve /\ IdleChurn

InitMissing ==
    /\ \E k \in 0..MaxMissingRows :
          \/ \E f \in [1..k -> EndedChoices] :
                policies_csv = QualityFrame(EndedColumns, EndedTypes, f)
          \/ \E f \in [1..k -> DiscountChoices] :
                policies_csv = QualityFrame(DiscountColumns, DiscountTypes, f)
          \/ \E f \in [1..k -> AgentChoices] :
                policies_csv = QualityFrame(AgentColumns, AgentTypes, f)
    /\ AwaitingChecks

InitImpossible ==
    /\ \E k \in 0..MaxImpossibleRows :
          \/ \E f \in [1..k -> DatesChoices] :
                policies_csv = QualityFrame(DatesColumns, DatesTypes, f)
          \/ \E f \in [1..k -> DiscountChoices] :
                policies_csv = QualityFrame(DiscountColumns, DiscountTypes, f)
          \/ \E f \in [1..k -> AgentChoices] :
                policies_csv = QualityFrame(AgentColumns, AgentTypes, f)
          \/ \E f \in [1..k -> RangeChoices] :
                policies_csv = QualityFrame(RangeColumns, RangeTypes, f)
    /\ AwaitingChecks

InitOutliers ==
    /\ \E k \in 0..MaxOutlierRows :
          \/ \E f \in [1..k -> OutlierChoices] :
                policies_csv = QualityFrame(<<"customer_age">>, <<"int64">>, f)
          \/ \E c \in {NaN, Some(1)} : \E f \in [1..k -> SkippedChoices(c)] :
                policies_csv = QualityFrame(RangeColumns, RangeTypes, f)
    /\ AwaitingChecks

InitExample ==
    /\ \E p \in Permutations(DOMAIN ExampleData) : \E n \in 0..MaxExampleNulls :
          policies_csv =
              QualityFrame(<<"premium">>, <<"int64">>,
                  Tabulate(n + Len(ExampleData), LAMBDA i :
                      [premium |-> IF i <= n THEN NaN ELSE Some(ExampleData[p[i - n]])]))
    /\ AwaitingChecks

\* analysis.py is started in a folder that holds policies.csv, or does not
InitPipeline ==
    /\ \/ policies_csv = NoFile
       \/ \E k \in 0..MaxPipelineRows : \E f \in [1..k -> PipelineChoices] :
          \E absent \in {"none"} \cup Range(PipelineColumns) :
             policies_csv = PipelineTable(f, absent)
    /\ df_customer = NotYet
    /\ policies_standardized = NoFile
    /\ stage = "input"
    /\ raised = "none"
    /\ sanity_report = NotYet
    /\ sys_stdout = "console"
    /\ output = NoOutput
    /\ pc = "data_cleaning.py"
    /\ IdleResolve /\ IdleChurn

NextResolve == Resolve
NextQuality == RunQualityChecks \/ SanityChecksMain
NextAge     == AgeGroup \/ ChurnTableAge
NextTenure  == TenureGroup \/ ChurnTableTenure \/ RunTenureChart
NextClean   == RunDataCleaning
NextRerun   == RunDataCleaning \/ FeedBack
NextChurn   == ChurnTable
\* analysis.py step by step; the standalone sanity_checks.py may be run before
NextPipeline ==
    \/ SanityChecksMain
    \/ CleaningStep1 \/ CleaningStep2 \/ ModuleLevel \/ ChurnReport \/ TenureChart
    \/ RiskyChannels \/ PriceCoverageChart

Init ==
    \/ InitResolve \/ InitStd \/ InitFrame \/ InitChurn \/ InitAge \/ InitTenure
    \/ InitMissing \/ InitImpossible \/ InitOutliers \/ InitExample \/ InitPipeline
Next ==
    \/ Resolve \/ RunDataCleaning \/ FeedBack
    \/ ChurnTable \/ AgeGroup \/ TenureGroup \/ ChurnTableAge \/ ChurnTableTenure
    \/ RunTenureChart \/ RunQualityChecks \/ SanityChecksMain
    \/ CleaningStep1 \/ CleaningStep2 \/ ModuleLevel \/ ChurnReport \/ TenureChart
    \/ RiskyChannels \/ PriceCoverageChart

SpecResolve == InitResolve /\ [][NextResolve]_vars
SpecStd     == InitStd /\ [][NextClean]_vars
SpecFrame   == InitFrame /\ [][NextClean]_vars
SpecRerun   == InitStd /\ [][NextRerun]_vars
SpecChurn   == InitChurn /\ [][NextChurn]_vars
SpecAge     == InitAge /\ [][NextAge]_vars
SpecTenure  == InitTenure /\ [][NextTenure]_vars
SpecMissing    == InitMissing /\ [][NextQuality]_vars
SpecImpossible == InitImpossible /\ [][NextQuality]_vars
SpecOutliers   == InitOutliers /\ [][NextQuality]_vars
SpecExample    == InitExample /\ [][NextQuality]_vars
SpecPipeline   == InitPipeline /\ [][NextPipeline]_vars
Spec        == Init /\ [][Next]_vars

----------------------------------------------------------------------------
(* Properties of resolve, checked under SpecResolve *)

\* the non-null observations of the series, and how often each occurs
Observed == Range(series) \ {NaN}
Occurrences(c) == Cardinality({i \in DOMAIN series : series[i] = c})
MostFrequent == {c \in Observed : \A w \in Observed : Occurrences(c) >= Occurrences(w)}

\* C1: a series with no non-null observation (empty, or all absent) resolves to
\* ("Unknown", 0).
C1_NoObservationIsUnknown ==
    (resolved # NotYet /\ Observed = {}) => resolved[1] = <<"Unknown", 0>>

C1_Witness ==
    /\ resolved = Some(<<"Unknown", 0>>)
    /\ Len(series) >= 2
    /\ Observed = {}

\* C2: when all the non-null observations are equal, whatever their number and
\* the number of absent ones, resolve returns that value with flag 0.
C2_AgreementIsNoConflict ==
    resolved # NotYet =>
        \A c \in Observed : Observed = {c} => resolved[1] = <<c[1], 0>>

C2_Witness ==
    /\ resolved = Some(<<"F", 0>>)
    /\ Observed = {Some("F")}
    /\ Occurrences(Some("F")) >= 2
    /\ NaN \in Range(series)

\* C3: two or more distinct values of which exactly one is the most frequent:
\* resolve returns that value with flag 1.
C3_UniqueModeWins ==
    resolved # NotYet =>
        \A c \in Observed :
            (Cardinality(Observed) >= 2 /\ MostFrequent = {c})
                => resolved[1] = <<c[1], 1>>

\* [M, F, F]: the mode is not the first value observed
C3_Witness ==
    /\ series = <<Some("M"), Some("F"), Some("F")>>
    /\ resolved = Some(<<"F", 1>>)

\* C4: two or more distinct values tie for the greatest frequency: resolve
\* returns the sentinel "Conflict" with flag 1, and none of the tied values.
C4_TieIsConflict ==
    (resolved # NotYet /\ Cardinality(MostFrequent) >= 2) =>
        /\ resolved[1] = <<"Conflict", 1>>
        /\ Some(resolved[1][1]) \notin MostFrequent

\* a three-way tie, with an absent observation beside it
C4_Witness ==
    /\ resolved = Some(<<"Conflict", 1>>)
    /\ Cardinality(MostFrequent) = 3
    /\ NaN \in Range(series)

----------------------------------------------------------------------------
(* Properties of the cleaning step *)

StdLabels == {"customer_gender_std", "gender_conflict", "country_std", "country_conflict"}

\* the cell of row r under the column labelled c
Cell(d, r, c) == d.rows[r][ColPos(d, c)]

\* the table holds exactly one column labelled c
OneColumn(d, c) == Cardinality({i \in DOMAIN d.columns : d.columns[i] = c}) = 1

\* a first run has ended and written its table
Cleaned == stage = "cleaned" /\ raised = "none"

\* the raw observations of field c the input holds for customer k, in row order
RawObservations(k, c) ==
    LET mine == SelectSeq(policies_csv.rows,
                          LAMBDA row : row[ColPos(policies_csv, "customer_id")] = k)
    IN  Tabulate(Len(mine), LAMBDA n : mine[n][ColPos(policies_csv, c)])

\* C5: in the standardized table the rows of one customer carry the same
\* customer_gender_std, gender_conflict, country_std and country_conflict, and
\* these are resolve() of all that customer's raw customer_gender / country
\* observations, whatever the row itself holds.
C5_Broadcast ==
    Cleaned =>
        LET out == policies_standardized[1]
        IN  /\ \A c \in StdLabels : OneColumn(out, c)
            /\ \A r \in DOMAIN out.rows :
                  LET k == Cell(out, r, "customer_id")
                      g == resolve(RawObservations(k, "customer_gender"))
                      c == resolve(RawObservations(k, "country"))
                  IN  k # NaN =>
                        /\ Cell(out, r, "customer_gender_std") = Some(g[1])
                        /\ Cell(out, r, "gender_conflict") = Some(g[2])
                        /\ Cell(out, r, "country_std") = Some(c[1])
                        /\ Cell(out, r, "country_conflict") = Some(c[2])
            /\ \A r1, r2 \in DOMAIN out.rows :
                  (Cell(out, r1, "customer_id") # NaN
                   /\ Cell(out, r1, "customer_id") = Cell(out, r2, "customer_id"))
                    => \A c \in StdLabels : Cell(out, r1, c) = Cell(out, r2, c)

\* three policies of one customer reporting F, F, M: F on all three rows
C5_Witness ==
    /\ Cleaned
    /\ Len(policies_csv.rows) = 3
    /\ \A r \in 1..3 : Cell(policies_csv, r, "customer_id") = Some("C1")
    /\ Column(policies_csv, "customer_gender") = <<Some("F"), Some("F"), Some("M")>>
    /\ Column(policies_standardized[1], "customer_gender_std")
         = <<Some("F"), Some("F"), Some("F")>>
    /\ Column(policies_standardized[1], "gender_conflict")
         = <<Some(1), Some(1), Some(1)>>

\* C6: every row of the standardized table has gender_conflict and
\* country_conflict in {0, 1} and a present customer_gender_std and country_std,
\* rows whose customer_id is absent included.
C6_EveryRowStandardized ==
    Cleaned =>
        LET out == policies_standardized[1]
        IN  \A r \in DOMAIN out.rows :
                /\ Cell(out, r, "gender_conflict") \in {Some(0), Some(1)}
                /\ Cell(out, r, "country_conflict") \in {Some(0), Some(1)}
                /\ Cell(out, r, "customer_gender_std") # NaN
                /\ Cell(out, r, "country_std") # NaN

\* C7: a second run on the table the first run produced yields the same
\* canonical values and conflict flags, under the same four output columns.
C7_SecondRunSameColumns ==
    (stage = "cleaned again" /\ raised = "none") =>
        LET first  == policies_csv
            second == policies_standardized[1]
        IN  \A c \in StdLabels :
                /\ OneColumn(second, c)
                /\ Column(second, c) = Column(first, c)

RawLabels == Range(CleaningColumns)

\* C8 as stated: the output has the input's rows, in order, every original
\* column, and every raw field value unchanged, income_band included.
C8_RawFieldsUnchanged ==
    Cleaned =>
        LET out == policies_standardized[1]
        IN  /\ Len(out.rows) = Len(policies_csv.rows)
            /\ \A c \in RawLabels :
                  /\ OneColumn(out, c)
                  /\ Column(out, c) = Column(policies_csv, c)

\* C8 as amended: same rows in order and every original column; every raw value
\* unchanged except that an absent income_band reads "Unknown" and that
\* policy_start_date (and snapshot_date) holds the parsed date, absent where the
\* text is no date.
C8_RawFieldsKept ==
    Cleaned =>
        LET out == policies_standardized[1]
        IN  /\ Len(out.rows) = Len(policies_csv.rows)
            /\ \A c \in RawLabels : OneColumn(out, c)
            /\ \A c \in RawLabels \ {"income_band", "snapshot_date", "policy_start_date"} :
                  Column(out, c) = Column(policies_csv, c)
            /\ \A r \in DOMAIN out.rows :
                  LET was == Cell(policies_csv, r, "income_band")
                  IN  Cell(out, r, "income_band")
                        = IF was = NaN THEN Some("Unknown") ELSE was
            /\ \A r \in DOMAIN out.rows :
                  LET was == Cell(policies_csv, r, "policy_start_date")
                      now == Cell(out, r, "policy_start_date")
                  IN  \/ was # NaN /\ was[1] \in DateStrings /\ now = Some(Timestamp(was[1]))
                      \/ (was = NaN \/ was[1] \notin DateStrings) /\ now = NaN

\* a row without customer, a defaulted income_band and a coerced date
C8_Witness ==
    /\ Cleaned
    /\ \E r \in DOMAIN policies_csv.rows :
          /\ Cell(policies_csv, r, "customer_id") = NaN
          /\ Cell(policies_csv, r, "income_band") = NaN
          /\ Cell(policies_standardized[1], r, "income_band") = Some("Unknown")
    /\ \E r \in DOMAIN policies_csv.rows :
          /\ Cell(policies_csv, r, "policy_start_date") = Some("01.03.21?")
          /\ Cell(policies_standardized[1], r, "policy_start_date") = NaN
          /\ Cell(policies_standardized[1], r, "customer_gender_std") = Some("Unknown")
          /\ Cell(policies_standardized[1], r, "customer_gender") = NaN

----------------------------------------------------------------------------
(* Properties of churn_table, checked under SpecChurn *)

\* the rows of the loaded table whose product_type is v
RowsOf(v) == {r \in DOMAIN df.rows : Cell(df, r, "product_type") = Some(v)}

\* the distinct policies among the rows rs, and the churned ones among them
Policies(rs) == {Cell(df, r, "policy_id") : r \in rs} \ {NaN}
ChurnedPolicies(rs) ==
    {Cell(df, r, "policy_id") : r \in {x \in rs : Cell(df, x, "churned") = Some(TRUE)}}
        \ {NaN}

AllRows == DOMAIN df.rows

\* every row has a product_type: the groups partition the table
CompletePartition == \A r \in AllRows : Cell(df, r, "product_type") # NaN

\* no policy_id stands under two values of product_type
NoPolicyInTwoGroups ==
    \A r1, r2 \in AllRows :
        (Cell(df, r1, "policy_id") # NaN
         /\ Cell(df, r1, "policy_id") = Cell(df, r2, "policy_id"))
            => Cell(df, r1, "product_type") = Cell(df, r2, "product_type")

\* C9: Total and Churned of every group are counted over distinct policy_id
\* values, so Churned <= Total and the rate is at most 100%.  Stated for the
\* tables in which every row has a policy_id.
C9_CountsOverDistinctPolicies ==
    (grp # NotYet /\ \A r \in AllRows : Cell(df, r, "policy_id") # NaN) =>
        \A n \in DOMAIN grp[1] :
            LET row == grp[1][n]
            IN  /\ row.Total = Cardinality(Policies(RowsOf(row.Value)))
                /\ row.Churned = Cardinality(ChurnedPolicies(RowsOf(row.Value)))
                /\ row.Churned <= row.Total
                /\ row.Rate.num <= 100 * row.Rate.den

\* C10 as stated: over a complete partition the groups' Churned sum to the
\* table's churned count and their Total to its number of distinct policy_id,
\* and these sums are the TOTAL line.
C10_PartitionSums ==
    (grp # NotYet /\ CompletePartition) =>
        /\ total_line[1].Churned = SumSeq(Tabulate(Len(grp[1]), LAMBDA n : grp[1][n].Churned))
        /\ total_line[1].Total = SumSeq(Tabulate(Len(grp[1]), LAMBDA n : grp[1][n].Total))
        /\ total_line[1].Churned
             = Cardinality({r \in AllRows : Cell(df, r, "churned") = Some(TRUE)})
        /\ total_line[1].Total = Cardinality(Policies(AllRows))

\* C10 as amended: the Churned sum is the table's churned count (its rows with
\* churned true); the Total sum is at least the number of distinct policy_id
\* and equals it when no policy_id stands under two groups.
C10_PartitionSumsAmended ==
    (grp # NotYet /\ CompletePartition) =>
        /\ total_line[1].Churned = SumSeq(Tabulate(Len(grp[1]), LAMBDA n : grp[1][n].Churned))
        /\ total_line[1].Total = SumSeq(Tabulate(Len(grp[1]), LAMBDA n : grp[1][n].Total))
        /\ total_line[1].Churned
             = Cardinality({r \in AllRows : Cell(df, r, "churned") = Some(TRUE)})
        /\ total_line[1].Total >= Cardinality(Policies(AllRows))
        /\ NoPolicyInTwoGroups => total_line[1].Total = Cardinality(Policies(AllRows))

\* two groups, a policy repeated inside one of them
C10_Witness ==
    /\ grp # NotYet
    /\ CompletePartition
    /\ NoPolicyInTwoGroups
    /\ Len(grp[1]) = 2
    /\ Len(df.rows) = 3
    /\ Cardinality(Policies(AllRows)) = 2
    /\ total_line[1] = [Total |-> 2, Churned |-> 2]

\* two rates are the same number (or both undefined)
RateSame(a, b) == a.num * b.den = b.num * a.den /\ (a.den = 0 <=> b.den = 0)

\* the churn rate of the whole table counted over distinct policies, as the
\* rates of the groups are meant to be
UniquePolicyRate ==
    Rate(100 * Cardinality(ChurnedPolicies(AllRows)), Cardinality(Policies(AllRows)))

\* C11: in every row of a breakdown the deviation is the row's rate minus the
\* baseline, the baseline being the churn rate of the whole table counted over
\* distinct policies, and the same value for every breakdown.  Stated for the
\* tables in which every row has a policy_id.
C11_DeviationFromBaseline ==
    (grp # NotYet /\ \A r \in AllRows : Cell(df, r, "policy_id") # NaN) =>
        /\ RateSame(overall_churn_rate, UniquePolicyRate)
        /\ \A n \in DOMAIN grp[1] :
              LET row  == grp[1][n]
                  base == UniquePolicyRate
              IN  row.vs_avg.num * (row.Rate.den * base.den)
                    = (row.Rate.num * base.den - base.num * row.Rate.den)
                         * row.vs_avg.den

\* a >= b as floats compare: false when either side is NaN
FloatGE(a, b) == ~IsNaNRate(a) /\ ~IsNaNRate(b) /\ RateGE(a, b)

----------------------------------------------------------------------------
(* Properties of the binning, checked under SpecAge and SpecTenure *)

\* the band the age a belongs to: left-open, right-closed, the last without end
AgeBand(a) ==
    IF a <= 17 THEN NaN
    ELSE IF a <= 30 THEN Some("18-30")
    ELSE IF a <= 40 THEN Some("31-40")
    ELSE IF a <= 50 THEN Some("41-50")
    ELSE IF a <= 60 THEN Some("51-60")
    ELSE IF a <= 70 THEN Some("61-70")
    ELSE Some("71+")

\* the rows of the loaded table whose cell under col is c
RowsWith(col, c) == {r \in DOMAIN df.rows : Cell(df, r, col) = c}

\* C13: every age is in the band AgeBand gives it and in no other (ages <= 17 in
\* none), and the age breakdown counts under each band the policies of exactly
\* the rows in that band, the rows of ages <= 17 staying in the table.
C13_AgeBands ==
    HasCol(df, "age_group") =>
        /\ \A r \in DOMAIN df.rows :
              Cell(df, r, "customer_age") # NaN =>
                  Cell(df, r, "age_group") = AgeBand(Cell(df, r, "customer_age")[1])
        /\ grp # NotYet =>
              \A n \in DOMAIN grp[1] :
                  grp[1][n].Total =
                      Cardinality({r \in DOMAIN df.rows :
                          /\ Cell(df, r, "customer_age") # NaN
                          /\ AgeBand(Cell(df, r, "customer_age")[1]) = Some(grp[1][n].Value)})

\* the band the tenure of h half months belongs to: [12k, 12(k+1)) months is
\* 'k-(k+1)yr' for k in 0..9, 120 months and more is '10yr+'
TenureBand(h) ==
    IF h < 0 THEN NaN
    ELSE IF h >= Months(120) THEN Some("10yr+")
    ELSE Some(TenureLabels[(h \div Months(12)) + 1])

\* C14: every tenure is in the band TenureBand gives it (a tenure on an edge in
\* the higher band, 120 months and more in '10yr+', negative and absent ones in
\* none), and the tenure breakdown counts under each band the policies of
\* exactly the rows in that band.
C14_TenureBands ==
    HasCol(df, "tenure_group") =>
        /\ \A r \in DOMAIN df.rows :
              Cell(df, r, "tenure_group") =
                  IF Cell(df, r, "tenure_months") = NaN THEN NaN
                  ELSE TenureBand(Cell(df, r, "tenure_months")[1])
        /\ grp # NotYet =>
              \A n \in DOMAIN grp[1] :
                  grp[1][n].Total =
                      Cardinality({r \in DOMAIN df.rows :
                          /\ Cell(df, r, "tenure_months") # NaN
                          /\ TenureBand(Cell(df, r, "tenure_months")[1])
                                = Some(grp[1][n].Value)})

\* the label 'Y-(Y+1)yr' of the bucket of year Y
BucketLabel(y) == ToString(y) \o "-" \o ToString(y + 1) \o "yr"

\* C15: the chart's buckets cover [0, M], M the greatest tenure: every row of
\* tenure t >= 0, the rows holding M among them, is in the bucket labelled
\* 'Y-(Y+1)yr' with Y = floor(t / 12), and is counted under that bar only.
C15_BucketsCoverMaximum ==
    HasCol(df, "tenure_bin") =>
        /\ \A r \in DOMAIN df.rows :
              (Cell(df, r, "tenure_months") # NaN /\ Cell(df, r, "tenure_months")[1] >= 0)
                  => Cell(df, r, "tenure_bin")
                        = Some(BucketLabel(Cell(df, r, "tenure_months")[1] \div Months(12)))
        /\ tenure_chart # NotYet =>
              \A n \in DOMAIN tenure_chart[1] :
                  tenure_chart[1][n].total =
                      Cardinality({r \in DOMAIN df.rows :
                          /\ Cell(df, r, "tenure_months") # NaN
                          /\ Cell(df, r, "tenure_months")[1] >= 0
                          /\ BucketLabel(Cell(df, r, "tenure_months")[1] \div Months(12))
                                = tenure_chart[1][n].tenure_bin})

\* the maximum is 12 months, a multiple of 12, beside a tenure of 11.5 months
C15_Witness ==
    /\ tenure_chart # NotYet
    /\ analysis_raised = "none"
    /\ tenure_max(df) = Some(24)
    /\ RowsWith("tenure_months", Some(23)) # {}
    /\ \A r \in RowsWith("tenure_months", Some(24)) : Cell(df, r, "tenure_bin") = Some("1-2yr")
    /\ \A r \in RowsWith("tenure_months", Some(23)) : Cell(df, r, "tenure_bin") = Some("0-1yr")
    /\ Len(tenure_chart[1]) = 2

----------------------------------------------------------------------------
(* Properties of the quality checks, checked under SpecMissing,              *)
(* SpecImpossible and SpecOutliers *)

CheckedRows == DOMAIN policies_csv.rows

\* the rows of policies.csv whose cell under col is empty
NullRows(col) == {r \in CheckedRows : Cell(policies_csv, r, col) = NaN}

\* the rows whose cell under col holds no date (empty, or not a date)
NoDateRows(col) ==
    {r \in CheckedRows :
        \/ Cell(policies_csv, r, col) = NaN
        \/ Cell(policies_csv, r, col)[1] \notin DateStrings}

\* the rows whose cell under col is the value v
RowsEqual(col, v) == {r \in CheckedRows : Cell(policies_csv, r, col) = Some(v)}

\* the rows whose acquisition_channel is 'agent' in some casing
AgentRows ==
    {r \in CheckedRows :
        /\ Cell(policies_csv, r, "acquisition_channel") # NaN
        /\ Cell(policies_csv, r, "acquisition_channel")[1] \in {"Agent", "AGENT", "agent"}}

\* the report shows col with a justification mark
Marked(col) ==
    /\ sanity_report # NotYet
    /\ sanity_report[1].missing # NotYet
    /\ \E n \in DOMAIN sanity_report[1].missing[1].rows :
          /\ sanity_report[1].missing[1].rows[n].Column = col
          /\ sanity_report[1].missing[1].rows[n].Justification # "-"

\* C16: a column with at least one null is marked justified iff the number of
\* its nulls equals the number of rows of its paired predicate: discount_rate
\* with discount_applied = False, policy_end_date (a cell without a date being
\* a null) with churned = False, agent_id with a channel that is not 'agent'.
C16_JustifiedByExactCount ==
    sanity_report # NotYet =>
        /\ (/\ HasCol(policies_csv, "discount_applied") /\ HasCol(policies_csv, "discount_rate")
            /\ NullRows("discount_rate") # {})
              => (Marked("discount_rate")
                    <=> Cardinality(NullRows("discount_rate"))
                          = Cardinality(RowsEqual("discount_applied", FALSE)))
        /\ (/\ HasCol(policies_csv, "churned") /\ HasCol(policies_csv, "policy_end_date")
            /\ NullRows("policy_end_date") # {})
              => (Marked("policy_end_date")
                    <=> Cardinality(NoDateRows("policy_end_date"))
                          = Cardinality(RowsEqual("churned", FALSE)))
        /\ (/\ HasCol(policies_csv, "acquisition_channel") /\ HasCol(policies_csv, "agent_id")
            /\ NullRows("agent_id") # {})
              => (Marked("agent_id")
                    <=> Cardinality(NullRows("agent_id"))
                          = Cardinality(CheckedRows \ AgentRows))

\* C17: a column marked justified has its nulls on exactly the rows of its
\* paired predicate.
C17_JustifiedRowWise ==
    /\ Marked("policy_end_date")
          => NoDateRows("policy_end_date") = RowsEqual("churned", FALSE)
    /\ Marked("churn_reason")
          => NullRows("churn_reason") = RowsEqual("churned", FALSE)
    /\ Marked("discount_rate")
          => NullRows("discount_rate") = RowsEqual("discount_applied", FALSE)
    /\ Marked("agent_id")
          => NullRows("agent_id") = CheckedRows \ AgentRows

\* the rules of the impossible-values check in their fixed order, each under
\* the text of its finding
RuleOrder ==
    <<"customer_age not in [18-120]", "num_dependents < 0", "coverage_amount <= 0",
      "premium <= 0", "tenure_months < 0", "renewal_count < 0", "num_riders < 0",
      "late_payment_count < 0", "customer_service_calls < 0",
      "premium_change_pct not in [-1, 1]", "discount_rate not in [0, 1]",
      "policy_end_date before policy_start_date",
      "churned=True but policy_end_date missing",
      "policy_end_date exists but churned=False",
      "discount_applied=True but discount_rate missing",
      "discount_rate exists but discount_applied=False",
      "acquisition_channel=Agent but agent_id missing",
      "agent_id exists but acquisition_channel != Agent">>

\* the rows with a number under col that satisfies none of lo <= v, v <= hi
\* (a bound of NaN is no bound)
OutsideRows(col, lo, hi) ==
    IF ~HasCol(policies_csv, col) THEN {}
    ELSE {r \in CheckedRows :
            /\ Cell(policies_csv, r, col) # NaN
            /\ \/ lo # NaN /\ Cell(policies_csv, r, col)[1] < lo[1]
               \/ hi # NaN /\ Cell(policies_csv, r, col)[1] > hi[1]}

HasBoth(c1, c2) == HasCol(policies_csv, c1) /\ HasCol(policies_csv, c2)

\* the rows that violate a rule
ViolatingRows(rule) ==
    CASE rule = "customer_age not in [18-120]" -> OutsideRows("customer_age", Some(18), Some(120))
      [] rule = "num_dependents < 0" -> OutsideRows("num_dependents", Some(0), NaN)
      [] rule = "coverage_amount <= 0" -> OutsideRows("coverage_amount", Some(1), NaN)
      [] rule = "premium <= 0" -> OutsideRows("premium", Some(1), NaN)
      [] rule = "tenure_months < 0" -> OutsideRows("tenure_months", Some(0), NaN)
      [] rule = "renewal_count < 0" -> OutsideRows("renewal_count", Some(0), NaN)
      [] rule = "num_riders < 0" -> OutsideRows("num_riders", Some(0), NaN)
      [] rule = "late_payment_count < 0" -> OutsideRows("late_payment_count", Some(0), NaN)
      [] rule = "customer_service_calls < 0"
            -> OutsideRows("customer_service_calls", Some(0), NaN)
      [] rule = "premium_change_pct not in [-1, 1]"
            -> OutsideRows("premium_change_pct", Some(-1), Some(1))
      [] rule = "discount_rate not in [0, 1]" -> OutsideRows("discount_rate", Some(0), Some(1))
      [] rule = "policy_end_date before policy_start_date" ->
            IF ~HasBoth("policy_start_date", "policy_end_date") THEN {}
            ELSE {r \in CheckedRows :
                    /\ Cell(policies_csv, r, "policy_end_date") = Some("2021-03-01")
                    /\ Cell(policies_csv, r, "policy_start_date") = Some("2022-11-30")}
      [] rule = "churned=True but policy_end_date missing" ->
            IF ~HasBoth("churned", "policy_end_date") THEN {}
            ELSE RowsEqual("churned", TRUE) \cap NoDateRows("policy_end_date")
      [] rule = "policy_end_date exists but churned=False" ->
            IF ~HasBoth("churned", "policy_end_date") THEN {}
            ELSE RowsEqual("churned", FALSE) \ NoDateRows("policy_end_date")
      [] rule = "discount_applied=True but discount_rate missing" ->
            IF ~HasBoth("discount_applied", "discount_rate") THEN {}
            ELSE RowsEqual("discount_applied", TRUE) \cap NullRows("discount_rate")
      [] rule = "discount_rate exists but discount_applied=False" ->
            IF ~HasBoth("discount_applied", "discount_rate") THEN {}
            ELSE RowsEqual("discount_applied", FALSE) \ NullRows("discount_rate")
      [] rule = "acquisition_channel=Agent but agent_id missing" ->
            IF ~HasBoth("acquisition_channel", "agent_id") THEN {}
            ELSE AgentRows \cap NullRows("agent_id")
      [] rule = "agent_id exists but acquisition_channel != Agent" ->
            IF ~HasBoth("acquisition_channel", "agent_id") THEN {}
            ELSE (CheckedRows \ AgentRows) \ NullRows("agent_id")

\* the impossible-values section is written
ImpossibleWritten == sanity_report # NotYet /\ sanity_report[1].impossible # NotYet

Findings == sanity_report[1].impossible[1].issues

\* the positions of the findings of a rule, and the count the rule is listed with
FindingsOf(rule) == {n \in DOMAIN Findings : Findings[n].rule = rule}
FindingCount(rule) ==
    IF FindingsOf(rule) = {} THEN 0 ELSE Findings[CHOOSE n \in FindingsOf(rule) : TRUE].n

Mismatched(flagged, present) ==
    {r \in CheckedRows : ~((r \in flagged) <=> (r \in present))}

OutliersWritten == sanity_report # NotYet /\ sanity_report[1].outliers # NotYet

OutlierRows == sanity_report[1].outliers[1].rows

\* the rows of policies.csv that hold a number under col
ValueRows(col) ==
    IF ~HasCol(policies_csv, col) THEN {}
    ELSE {r \in CheckedRows : Cell(policies_csv, r, col) # NaN}

\* the k-th smallest of the numbers under col
Kth(col, k) ==
    CHOOSE v \in {Cell(policies_csv, r, col)[1] : r \in ValueRows(col)} :
        /\ Cardinality({r \in ValueRows(col) : Cell(policies_csv, r, col)[1] < v}) < k
        /\ k <= Cardinality({r \in ValueRows(col) : Cell(policies_csv, r, col)[1] <= v})

\* four times the quartile q (1 or 3) of the numbers under col: the rank
\* 1 + (n - 1) q / 4, interpolated linearly between its two neighbours
Quartile4(col, q) ==
    LET pos == (Cardinality(ValueRows(col)) - 1) * q
        lo  == (pos \div 4) + 1
    IN  IF pos % 4 = 0 THEN 4 * Kth(col, lo)
        ELSE 4 * Kth(col, lo) + (pos % 4) * (Kth(col, lo + 1) - Kth(col, lo))

\* the rows whose number lies strictly outside [Q1 - 1.5 IQR, Q3 + 1.5 IQR],
\* q1 and q3 being four times the quartiles
Outliers(col, q1, q3) ==
    {r \in ValueRows(col) :
        \/ 8 * Cell(policies_csv, r, col)[1] < 2 * q1 - 3 * (q3 - q1)
        \/ 8 * Cell(policies_csv, r, col)[1] > 2 * q3 + 3 * (q3 - q1)}

\* C20: a numeric column that is absent, has no value or has IQR = 0 gets no
\* row; any other gets one row whose count is the number of its values
\* strictly outside the bounds and whose percentage is that count over the
\* number of its values; "No outliers detected." is printed iff no row has a
\* nonzero count.
C20_OutlierCounts ==
    OutliersWritten =>
        /\ \A k \in DOMAIN numeric_cols :
              LET col  == numeric_cols[k]
                  rows == {n \in DOMAIN OutlierRows : OutlierRows[n].col = col}
              IN  IF ValueRows(col) = {} THEN rows = {}
                  ELSE \A q1 \in {Quartile4(col, 1)} : \A q3 \in {Quartile4(col, 3)} :
                       \A out \in {Cardinality(Outliers(col, q1, q3))} :
                          IF q3 - q1 = 0 THEN rows = {}
                          ELSE /\ Cardinality(rows) = 1
                               /\ \A n \in rows :
                                     /\ OutlierRows[n].n_out = out
                                     /\ RateSame(OutlierRows[n].pct,
                                                 Rate(100 * out, Cardinality(ValueRows(col))))
        /\ sanity_report[1].outliers[1].none_detected
              <=> \A n \in DOMAIN OutlierRows : OutlierRows[n].n_out = 0

\* ages 1, 1, 2, 3, 6: Q1 = 1, Q3 = 3, the upper bound is 6 and the age 6 on it
\* is no outlier; the premium column beside it has IQR = 0 and no row
C20_Witness ==
    /\ OutliersWritten
    /\ HasCol(policies_csv, "premium") /\ ValueRows("premium") # {}
    /\ Len(OutlierRows) = 1
    /\ OutlierRows[1].col = "customer_age"
    /\ OutlierRows[1].upper = Rate(48, 8)
    /\ \E r \in CheckedRows : Cell(policies_csv, r, "customer_age") = Some(6)
    /\ OutlierRows[1].n_out = 0
    /\ sanity_report[1].outliers[1].none_detected

----------------------------------------------------------------------------
(* The outlier check on six values, checked under SpecExample *)

\* the numbers under col are exactly the numbers of data, which are distinct
HoldsExactly(col, data) ==
    /\ HasCol(policies_csv, col)
    /\ Cardinality(ValueRows(col)) = Len(data)
    /\ \A i \in DOMAIN data :
          \E r \in ValueRows(col) : Cell(policies_csv, r, col) = Some(data[i])

\* the row of the outliers section for col has the quartiles q1 / 4 and q3 / 4,
\* the bounds lower / 8 and upper / 8 and the count n_out
OutlierRowIs(col, q1, q3, lower, upper, n_out) ==
    /\ Cardinality({n \in DOMAIN OutlierRows : OutlierRows[n].col = col}) = 1
    /\ \A n \in DOMAIN OutlierRows :
          OutlierRows[n].col = col =>
              /\ OutlierRows[n].q1 = Rate(q1, 4)
              /\ OutlierRows[n].q3 = Rate(q3, 4)
              /\ OutlierRows[n].iqr = Rate(q3 - q1, 4)
              /\ OutlierRows[n].lower = Rate(lower, 8)
              /\ OutlierRows[n].upper = Rate(upper, 8)
              /\ OutlierRows[n].n_out = n_out

\* C21 as stated: for a column whose values are 1, 2, 3, 4, 5, 100 the check
\* computes Q1 = 2, Q3 = 4.5, IQR = 2.5, the bounds -1.75 and 8.25, and
\* reports exactly one outlier.
C21_WorkedExample ==
    (OutliersWritten /\ HoldsExactly("premium", ExampleData)) =>
        OutlierRowIs("premium", 8, 18, -14, 66, 1)

\* C21 amended: for a column whose values are 1, 2, 3, 4, 5, 100 the check
\* computes Q1 = 2.25, Q3 = 4.75, IQR = 2.5, the bounds -1.5 and 8.5, and
\* reports exactly one outlier, the value 100.
C21_WorkedExampleAmended ==
    (OutliersWritten /\ HoldsExactly("premium", ExampleData)) =>
        /\ OutlierRowIs("premium", 9, 19, -12, 68, 1)
        /\ {Cell(policies_csv, r, "premium")[1] :
               r \in Outliers("premium", Quartile4("premium", 1), Quartile4("premium", 3))}
              = {100}
        /\ ~sanity_report[1].outliers[1].none_detected

\* the six values in another order than the sorted one, beside an empty cell
C21_Witness ==
    /\ OutliersWritten
    /\ HoldsExactly("premium", ExampleData)
    /\ Len(policies_csv.rows) = Len(ExampleData) + 1
    /\ Cell(policies_csv, 2, "premium") = Some(100)
    /\ Len(OutlierRows) = 1
    /\ OutlierRows[1].n_out = 1

----------------------------------------------------------------------------
(* The battery of checks as a whole, checked under SpecMissing *)

\* the lines of the quality report
ReportLines == output[SANITY_OUTPUT][1]

\* the check with heading h wrote its heading into the report
SectionAppears(h) == \E n \in DOMAIN ReportLines : ReportLines[n] = h

\* the checks ran on a table and one of them raised
CheckFailed ==
    /\ sanity_report # NotYet
    /\ sanity_report[1].shape # NotYet
    /\ sanity_report[1].raised # "none"

\* C22: when one of the seven checks fails with an error, every later check
\* is still executed and its section still appears in the report.
C22_NoShortCircuit ==
    CheckFailed =>
        /\ \A i \in DOMAIN Headings : SectionAppears(Headings[i])
        /\ sanity_report[1].impossible # NotYet
        /\ sanity_report[1].outliers # NotYet

----------------------------------------------------------------------------
(* The pipeline as a whole, checked under SpecPipeline *)

\* columns that are neither a key, a demographic or numeric field nor the
\* churn flag
OptionalColumns ==
    {"agent_id", "beneficiary_updated", "discount_applied", "has_rider",
     "critical_illness_rider", "disability_rider"}

\* policies.csv holds rows and lacks the column c
Lacks(c) ==
    /\ policies_csv # NoFile
    /\ policies_csv.rows # <<>>
    /\ ~HasCol(policies_csv, c)

\* the titles of the breakdowns of the churn report, with their columns
BreakdownTitles ==
    {<<"product_type", "Product Type">>, <<"payment_frequency", "Payment Frequency">>,
     <<"acquisition_channel", "Acquisition Channel">>,
     <<"late_payment_count", "Late Payment Count">>,
     <<"customer_service_calls", "Customer Service Calls">>,
     <<"beneficiary_updated", "Beneficiary Updated">>, <<"age_group", "Age Group">>,
     <<"customer_gender_std", "Gender (standardized)">>,
     <<"marital_status", "Marital Status">>, <<"income_band", "Income Band">>,
     <<"country_std", "Country (standardized)">>,
     <<"discount_applied", "Discount Applied">>, <<"has_rider", "Has Rider">>,
     <<"critical_illness_rider", "Critical Illness Rider">>,
     <<"disability_rider", "Disability Rider">>, <<"tenure_group", "Tenure Group">>,
     <<"num_dependents", "Number of Dependents">>}

\* the lines of the churn report
ChurnLines == output[CHURN_OUTPUT][1]

\* C23: when an optional column is absent from the input table, no check, no
\* standardized field and no churn breakdown raises for the absence (KeyError),
\* and the breakdowns of the other columns are all written.
C23_AbsentColumnSkipped ==
    \A c \in OptionalColumns :
        Lacks(c) =>
            /\ sanity_report # NotYet => sanity_report[1].raised # "KeyError"
            /\ raised # "KeyError"
            /\ analysis_raised # "KeyError"
            /\ output[CHURN_OUTPUT] # NoFile =>
                  \A b \in BreakdownTitles :
                      b[1] # c => \E n \in DOMAIN ChurnLines : ChurnLines[n] = b[2]

\* the run of analysis.py has ended
Ended == pc \in {"done", "Traceback"}

\* C24: when policies.csv does not exist, the run ends with the failure
\* reported and no output has been created: neither the quality report nor
\* the standardized table.
C24_SourceAbsent ==
    (policies_csv = NoFile /\ Ended) =>
        /\ sanity_report[1].raised = "FileNotFoundError"
        /\ output[SANITY_OUTPUT] = NoFile
        /\ policies_standardized = NoFile

\* a stage of the pipeline raised
StageRaised ==
    \/ sanity_report # NotYet /\ sanity_report[1].raised # "none"
    \/ raised # "none"
    \/ analysis_raised # "none"

\* the outputs of the stages that ran to their end are in place
CompletedOutputsKept ==
    /\ raised # "none" => output[SANITY_OUTPUT] # NoFile
    /\ analysis_raised # "none" =>
          /\ output[SANITY_OUTPUT] # NoFile
          /\ policies_standardized # NoFile

\* C25: when a stage of the pipeline raises, the error is caught at the top
\* level of the run (no exception leaves the script), and the outputs of the
\* stages completed before are still present.
C25_FailureCaught ==
    (pc # "idle" /\ StageRaised) =>
        /\ pc # "Traceback"
        /\ CompletedOutputsKept

\* the lines of s that belong to the set keep, in their order
RECURSIVE Kept(_, _)
Kept(s, keep) ==
    IF s = <<>> THEN <<>>
    ELSE IF Head(s) \in keep THEN <<Head(s)>> \o Kept(Tail(s), keep)
    ELSE Kept(Tail(s), keep)

\* the seven checks in the order of the quality report
CheckOrder ==
    <<"1. SHAPE", "2. DATA TYPES", "3. CATEGORICAL DISTRIBUTION", "4. MISSING VALUES",
      "5. DUPLICATES", "6. IMPOSSIBLE VALUES", "7. OUTLIERS">>

\* the sections of the churn report and their breakdowns, in order
BreakdownOrder ==
    <<"SECTION 1: POLICY CHARACTERISTICS",
      "Product Type", "Payment Frequency", "Acquisition Channel",
      "SECTION 2: CUSTOMER BEHAVIOR SIGNALS",
      "Late Payment Count", "Customer Service Calls", "Beneficiary Updated",
      "SECTION 3: CUSTOMER DEMOGRAPHICS",
      "Age Group", "Gender (standardized)", "Marital Status", "Income Band",
      "Country (standardized)",
      "SECTION 4: ADD-ONS AND DISCOUNTS",
      "Discount Applied", "Has Rider", "Critical Illness Rider", "Disability Rider",
      "SECTION 5: NUMERIC POLICY CHARACTERISTICS",
      "Tenure Group", "Number of Dependents">>

\* the checks, or the churn report, ran to their end
ChecksCompleted == sanity_report # NotYet /\ sanity_report[1].raised = "none"
ChurnReportCompleted ==
    /\ output[CHURN_OUTPUT] # NoFile
    /\ \E n \in DOMAIN output["console"][1] :
          output["console"][1][n] = "Saved to: churn_rate_report.txt"

\* C26: in every run that completes, the quality report holds the seven
\* check sections once each in the order shape, data types, categorical
\* distribution, missing values, duplicates, impossible values, outliers, and
\* the churn report holds sections 1 to 5 in order, each with its breakdowns
\* in the fixed order, whatever the data.
C26_FixedOrder ==
    /\ ChecksCompleted => Kept(ReportLines, Range(CheckOrder)) = CheckOrder
    /\ ChurnReportCompleted => Kept(ChurnLines, Range(BreakdownOrder)) = BreakdownOrder

\* the pipeline ran to its end on a table with a churned policy
C26_Witness ==
    /\ pc = "done"
    /\ ChecksCompleted /\ ChurnReportCompleted
    /\ Len(ChurnLines) = Len(BreakdownOrder) + 1
    /\ total_line = Some([Total |-> 1, Churned |-> 1])

\* the pipeline is past its quality checks
ChecksRan == pc \notin {"idle", "data_cleaning.py"} /\ sanity_report[1].shape # NotYet

\* C27: in a pipeline run the standardized table exists before the quality
\* checks and the churn report run, and both reports are computed from the
\* standardized table: the quality report counts its columns, the churn report
\* reads its standardized fields.
C27_DataFlow ==
    /\ ChecksRan =>
          /\ policies_standardized # NoFile
          /\ sanity_report[1].shape[1].columns = Len(policies_standardized[1].columns)
    /\ (pc # "idle" /\ output[CHURN_OUTPUT] # NoFile) =>
          /\ policies_standardized # NoFile
          /\ \A r \in DOMAIN df.rows : \A c \in DOMAIN policies_standardized[1].columns :
                policies_standardized[1].columns[c] \in {"customer_gender_std", "country_std"}
                    => df.rows[r][c] = policies_standardized[1].rows[r][c]

\* the messages printed after a report is closed
SavedMessages ==
    {"Saved to: sanity_checks_report.txt", "Report saved to: sanity_checks_report.txt",
     "Saved to: policies_standardized.csv", "Saved to: churn_rate_report.txt",
     "Saved to: tenure_churn_histogram.png", "Saved to: risky_payment.png",
     "Saved to: price_per_coverage_plot.png"}

\* C28: after run_quality_checks, sanity_checks.main and run_churn_report have
\* returned or raised, sys.stdout is the stream it was before the call, and no
\* 'Saved to' message and no later stage writes into a report file.
C28_StdoutRestored ==
    /\ sys_stdout = "console"
    /\ \A file \in {SANITY_OUTPUT, CHURN_OUTPUT} :
          output[file] # NoFile =>
              \A n \in DOMAIN output[file][1] : output[file][1][n] \notin SavedMessages

\* run_churn_report raised on a missing column after sanity_checks.main and
\* the pipeline's checks and cleaning had written their outputs
C28_Witness ==
    /\ pc = "Traceback"
    /\ analysis_raised = "KeyError"
    /\ output[CHURN_OUTPUT] # NoFile
    /\ ~ChurnReportCompleted
    /\ sys_stdout = "console"
    /\ output["console"][1] =
          <<"Report saved to: sanity_checks_report.txt", "Saved to: sanity_checks_report.txt",
            "Saved to: policies_standardized.csv">>

=============================================================================
